---- MODULE Spec2Model ----
(***************************************************************************)
(* A model of the fst-writer (ekiwi/fst-writer):                           *)
(*   - src/src/io.rs      variant integers and the value encoders          *)
(*   - src/src/buffer.rs  SignalBuffer and the SingleVecLists chain store  *)
(*   - src/src/writer.rs  FstHeaderWriter and FstBodyWriter                  *)
(* Bytes are the integers 0..255.  A u64 is a function from the bit        *)
(* positions 0..63 to {0,1} (bit 0 is the least significant one), so that  *)
(* shifts and masks keep the width of the machine word.                    *)
(***************************************************************************)
EXTENDS Integers, Sequences, FiniteSets, TLC

VARIABLES
    \* FstBodyWriter (src/src/writer.rs)
    pc,           \* "body" | "closed" | "aborted" (a panic ended the program)
    buf,          \* the SignalBuffer
    out,          \* the value-change sections handed to the output, in order
    finish_info,  \* HeaderFinishInfo: end_time, scope_count, var_count, num_signals,
                  \* num_value_change_sections
    header,       \* the FstHeaderWriter (hw), the build it runs in
                  \* (debug_assertions) and the calls it received (calls)
    call,         \* the last call: its name, its arguments, what it returned, and
                  \* whether it changed the buffer
    \* the record of a run, kept for the round-trip properties
    steps,        \* number of calls made so far
    written,      \* per signal: the accepted writes, <<time, value>>, in order
    twin,         \* the same calls replayed on a writer that skips explicit flushes
    \* chain-store harness (src/src/buffer.rs, mod tests)
    dut,          \* SingleVecLists under test
    reference,    \* MultiVecLists, one vector per list
    fixed,        \* the harness's fixed_size: None, or Some(len)
    \* variant-integer harness
    vpc,          \* "input" | "written" | "read"
    vin,          \* the u64 to encode
    vbytes,       \* the bytes write_variant_u64 produced
    vcount,       \* the count write_variant_u64 returned
    vdec,         \* what read_variant_u64 returned
    \* block-writer harness (src/src/io.rs)
    disk,         \* the output stream (cur), the number of calls made on it (n)
                  \* and the last call with what it returned (last)
    \* value-encoder harness (src/src/io.rs)
    encoder       \* "input" | "encoded", the function called, its arguments and its result

bodyVars == <<pc, buf, out, finish_info, call>>
traceVars == <<steps, written, twin>>
listVars == <<dut, reference, fixed>>
variantVars == <<vpc, vin, vbytes, vcount, vdec>>
headerVars == <<header>>
ioVars == <<disk>>
encVars == <<encoder>>
vars == <<pc, buf, out, finish_info, header, call, steps, written, twin,
          dut, reference, fixed, vpc, vin, vbytes, vcount, vdec, disk, encoder>>

---------------------------------------------------------------------------
(* Machine words *)

U64Bits == 64

BitIdx == 0..(U64Bits - 1)

Zero64 == [i \in BitIdx |-> 0]

\* n as u64, for a natural number below 2^31
U64(n) == [i \in BitIdx |-> IF i < 31 THEN (n \div (2 ^ i)) % 2 ELSE 0]

\* value >> k
Shr(value, k) == [i \in BitIdx |-> IF i + k < U64Bits THEN value[i + k] ELSE 0]

\* value << k, the bits shifted past bit 63 are dropped
Shl(value, k) == [i \in BitIdx |-> IF i >= k THEN value[i - k] ELSE 0]

\* a | b
BitOr(a, b) == [i \in BitIdx |-> IF a[i] = 1 \/ b[i] = 1 THEN 1 ELSE 0]

IsZero64(value) == \A i \in BitIdx : value[i] = 0

\* (value & 0x7f) as u8
Low7(value) ==
    value[0] + 2 * value[1] + 4 * value[2] + 8 * value[3]
    + 16 * value[4] + 32 * value[5] + 64 * value[6]

\* the natural number a u64 holds, for a value below 2^31
RECURSIVE NatFrom(_, _)
NatFrom(value, i) ==
    IF i > 30 THEN 0 ELSE value[i] + 2 * NatFrom(value, i + 1)

ToNat(value) == NatFrom(value, 0)

---------------------------------------------------------------------------
(* Variant integers: io.rs write_variant_u64, buffer.rs read_variant_u64 *)

\* the while loop of write_variant_u64
RECURSIVE variant_loop(_, _)
variant_loop(value, bytes) ==
    IF IsZero64(value) THEN bytes
    ELSE LET next_value == Shr(value, 7)
             mask == IF IsZero64(next_value) THEN 0 ELSE 128
         IN variant_loop(next_value, Append(bytes, Low7(value) + mask))

\* plausible slip: the continuation bit set from the value, not from what is left
RECURSIVE variant_loop_mask_slip(_, _)
variant_loop_mask_slip(value, bytes) ==
    IF IsZero64(value) THEN bytes
    ELSE LET next_value == Shr(value, 7)
             mask == IF IsZero64(value) THEN 0 ELSE 128
         IN variant_loop_mask_slip(next_value, Append(bytes, Low7(value) + mask))

write_variant_u64_mask_slip(value) ==
    IF \A i \in 7..(U64Bits - 1) : value[i] = 0
    THEN <<Low7(value)>>
    ELSE variant_loop_mask_slip(value, <<>>)

\* the bytes written; the count returned is their number
write_variant_u64(value) ==
    IF \A i \in 7..(U64Bits - 1) : value[i] = 0
    THEN <<Low7(value)>>
    ELSE variant_loop(value, <<>>)

\* read_variant_u64: at most ten bytes are looked at; running out of input
\* without a final byte is the unreachable!() panic
RECURSIVE read_variant_from(_, _, _)
read_variant_from(input, ii, res) ==
    IF ii >= 10 \/ ii >= Len(input)
    THEN [ok |-> FALSE, val |-> Zero64, n |-> 0]
    ELSE LET byte == input[ii + 1]
             value == U64(byte % 128)
             res2 == BitOr(res, Shl(value, 7 * ii))
         IN IF byte \div 128 = 0
            THEN [ok |-> TRUE, val |-> res2, n |-> ii + 1]
            ELSE read_variant_from(input, ii + 1, res2)

read_variant_u64(input) == read_variant_from(input, 0, Zero64)

\* the u64 values the harness encodes: 0, every single bit, every run of low
\* ones up to 2^64 - 1, and every pair (bit 0, bit k)
OneBit(k) == [i \in BitIdx |-> IF i = k THEN 1 ELSE 0]

LowOnes(k) == [i \in BitIdx |-> IF i < k THEN 1 ELSE 0]

VariantInputs ==
    {OneBit(k) : k \in BitIdx}
    \cup {LowOnes(k) : k \in 0..U64Bits}
    \cup {BitOr(OneBit(0), OneBit(k)) : k \in BitIdx}

VariantIdle ==
    /\ vpc = "idle" /\ vin = Zero64 /\ vbytes = <<>> /\ vcount = 0
    /\ vdec = [ok |-> FALSE, val |-> Zero64, n |-> 0]

InitVariant ==
    /\ vpc = "input" /\ vin \in VariantInputs /\ vbytes = <<>> /\ vcount = 0
    /\ vdec = [ok |-> FALSE, val |-> Zero64, n |-> 0]

WriteVariant ==
    /\ vpc = "input"
    /\ vbytes' = write_variant_u64(vin)
    /\ vcount' = Len(write_variant_u64(vin))
    /\ vpc' = "written"
    /\ UNCHANGED <<vin, vdec>>

ReadVariant ==
    /\ vpc = "written"
    /\ vdec' = read_variant_u64(vbytes)
    /\ vpc' = "read"
    /\ UNCHANGED <<vin, vbytes, vcount>>

---------------------------------------------------------------------------
(* The chain store: buffer.rs SingleVecLists, and MultiVecLists, the       *)
(* reference the tests compare it with.  data is a Vec<u8>: the byte at    *)
(* offset k is data[k + 1].  An Option<usize> is a record.                 *)

None == [some |-> FALSE, len |-> 0]

Some(n) == [some |-> TRUE, len |-> n]

\* u32::to_le_bytes
to_le_bytes(n) ==
    <<n % 256, (n \div 256) % 256, (n \div 65536) % 256, (n \div 16777216) % 256>>

\* u32::from_le_bytes
from_le_bytes(b) == b[1] + 256 * b[2] + 65536 * b[3] + 16777216 * b[4]

\* SingleVecLists::new
SingleVecLists_new(num_lists) ==
    [lists_last |-> [i \in 0..(num_lists - 1) |-> 0], data |-> <<>>]

\* SingleVecLists::append (offsets stay far below 2^32 here, so the cast
\* `as u32` keeps the value)
append(self, list_id, data, fixed_size) ==
    LET back_pointer == self.lists_last[list_id]
    IN [lists_last |-> [self.lists_last EXCEPT ![list_id] = Len(self.data) + 1],
        data |-> self.data \o to_le_bytes(back_pointer)
                 \o (IF fixed_size.some THEN data
                     ELSE write_variant_u64(U64(Len(data))) \o data)]

\* SingleVecLists::read_back_pointer; the caller has checked the range
read_back_pointer(self, start) ==
    from_le_bytes(SubSeq(self.data, start + 1, start + 4))

\* SingleVecLists::list_len, the walk from `last`; -1 stands for a panic
\* (a slice out of range, or read_variant_u64's unreachable!())
RECURSIVE list_len_from(_, _, _, _)
list_len_from(self, last, fixed_size, total_len) ==
    IF last = 0 THEN total_len
    ELSE LET start == last - 1
         IN IF start + 4 > Len(self.data) THEN -1
            ELSE IF fixed_size.some
            THEN list_len_from(self, read_back_pointer(self, start), fixed_size,
                               total_len + fixed_size.len)
            ELSE LET r == read_variant_u64(SubSeq(self.data, start + 5, Len(self.data)))
                 IN IF ~r.ok THEN -1
                    ELSE list_len_from(self, read_back_pointer(self, start),
                                       fixed_size, total_len + ToNat(r.val))

list_len(self, list_id, fixed_size) ==
    list_len_from(self, self.lists_last[list_id], fixed_size, 0)

\* out[remaining_len..remaining_len + len].copy_from_slice(&data[start..start + len])
copy_into(o, remaining_len, data, start, len) ==
    [i \in 1..Len(o) |->
        IF i > remaining_len /\ i <= remaining_len + len
        THEN data[start + (i - remaining_len)]
        ELSE o[i]]

PanicBytes == [ok |-> FALSE, bytes |-> <<>>]

\* plausible slip: the back pointer not skipped
body_start_no_skip(start, len_skip) == start + len_skip

\* `let start = start + 4 + len_skip`: skip the back pointer and the length
body_start(start, len_skip) == start + 4 + len_skip

\* the two while loops of SingleVecLists::extract_list
RECURSIVE extract_from(_, _, _, _, _)
extract_from(self, last, fixed_size, remaining_len, o) ==
    IF last = 0 THEN [ok |-> remaining_len = 0, bytes |-> o]
    ELSE LET start == last - 1
         IN IF start + 4 > Len(self.data) THEN PanicBytes
            ELSE LET next == read_back_pointer(self, start)
                 IN IF fixed_size.some
                    THEN LET len == fixed_size.len
                         IN IF remaining_len < len \/ start + 4 + len > Len(self.data)
                            THEN PanicBytes
                            ELSE extract_from(self, next, fixed_size, remaining_len - len,
                                     copy_into(o, remaining_len - len, self.data,
                                               body_start(start, 0), len))
                    ELSE LET r == read_variant_u64(
                                      SubSeq(self.data, start + 5, Len(self.data)))
                             len == ToNat(r.val)
                         IN IF ~r.ok THEN PanicBytes
                            ELSE IF remaining_len < len
                                    \/ start + 4 + r.n + len > Len(self.data)
                            THEN PanicBytes
                            ELSE extract_from(self, next, fixed_size, remaining_len - len,
                                     copy_into(o, remaining_len - len, self.data,
                                               body_start(start, r.n), len))

\* plausible slip: records placed at an increasing cursor, so that the
\* extracted list comes out newest first
extract_list_newest_first(self, list_id, fixed_size) ==
    LET RECURSIVE walk(_, _)
        walk(last, acc) ==
            IF last = 0 THEN acc
            ELSE LET start == last - 1
                     r == read_variant_u64(SubSeq(self.data, start + 5, Len(self.data)))
                     skip == IF fixed_size.some THEN 0 ELSE r.n
                     len == IF fixed_size.some THEN fixed_size.len ELSE ToNat(r.val)
                 IN walk(read_back_pointer(self, start),
                         acc \o SubSeq(self.data, start + 5 + skip, start + 4 + skip + len))
    IN [ok |-> TRUE, bytes |-> walk(self.lists_last[list_id], <<>>)]

\* SingleVecLists::extract_list
extract_list(self, list_id, fixed_size) ==
    IF self.lists_last[list_id] = 0 THEN [ok |-> TRUE, bytes |-> <<>>]
    ELSE LET len == list_len(self, list_id, fixed_size)
         IN IF len < 0 THEN PanicBytes
            ELSE extract_from(self, self.lists_last[list_id], fixed_size, len,
                              [i \in 1..len |-> 0])

\* SingleVecLists::clear
SingleVecLists_clear(self) ==
    [lists_last |-> [i \in DOMAIN self.lists_last |-> 0], data |-> <<>>]

\* SingleVecLists::size
SingleVecLists_size(self) ==
    Cardinality(DOMAIN self.lists_last) * 4 + Len(self.data)

\* MultiVecLists::new / append / extract_list
MultiVecLists_new(num_lists) == [lists |-> [i \in 0..(num_lists - 1) |-> <<>>]]

MultiVecLists_append(self, list_id, data) ==
    [lists |-> [self.lists EXCEPT ![list_id] = @ \o data]]

MultiVecLists_extract_list(self, list_id) == self.lists[list_id]

---------------------------------------------------------------------------
(* The value encoders of io.rs.  A value is a sequence of ASCII bytes.     *)

Ch_0 == 48
Ch_1 == 49
\* '2', the byte after '1': no character of a value
Ch_2 == Ch_1 + 1
Ch_x == 120
Ch_X == 88
Ch_z == 122
Ch_Z == 90
Ch_h == 104
Ch_H == 72
Ch_u == 117
Ch_U == 85
Ch_w == 119
Ch_W == 87
Ch_l == 108
Ch_L == 76
Ch_minus == 45
Ch_quest == 63

\* Option<u8> of encode_9_value: -1 is None
encode_9_value(value) ==
    CASE value \in {Ch_x, Ch_X} -> 0
      [] value \in {Ch_z, Ch_Z} -> 1
      [] value \in {Ch_h, Ch_H} -> 2
      [] value \in {Ch_u, Ch_U} -> 3
      [] value \in {Ch_w, Ch_W} -> 4
      [] value \in {Ch_l, Ch_L} -> 5
      [] value = Ch_minus -> 6
      [] value = Ch_quest -> 7
      [] OTHER -> -1

\* plausible slip: the nine-value form shifted by 2 like the binary form
write_one_bit_signal_short_shift(time_delta, value) ==
    IF value \in {Ch_0, Ch_1}
    THEN LET bit == value - Ch_0
         IN [ok |-> TRUE,
             bytes |-> write_variant_u64(
                           BitOr(Shl(U64(time_delta), 2), Shl(U64(bit), 1)))]
    ELSE IF encode_9_value(value) >= 0
    THEN [ok |-> TRUE,
          bytes |-> write_variant_u64(
                        BitOr(BitOr(Shl(U64(time_delta), 2),
                                    Shl(U64(encode_9_value(value)), 1)), U64(1)))]
    ELSE [ok |-> FALSE, bytes |-> <<>>]

\* write_one_bit_signal: the bytes appended to `output`, or InvalidCharacter
write_one_bit_signal(time_delta, value) ==
    IF value \in {Ch_0, Ch_1}
    THEN LET bit == value - Ch_0
         IN [ok |-> TRUE,
             bytes |-> write_variant_u64(
                           BitOr(Shl(U64(time_delta), 2), Shl(U64(bit), 1)))]
    ELSE IF encode_9_value(value) >= 0
    THEN [ok |-> TRUE,
          bytes |-> write_variant_u64(
                        BitOr(BitOr(Shl(U64(time_delta), 4),
                                    Shl(U64(encode_9_value(value)), 1)), U64(1)))]
    ELSE [ok |-> FALSE, bytes |-> <<>>]

is_digital(values) == \A i \in 1..Len(values) : values[i] \in {Ch_0, Ch_1}

\* the packing loop of write_multi_bit_signal; ii counts from 0
RECURSIVE pack_bits(_, _, _, _)
pack_bits(values, ii, wip_byte, acc) ==
    IF ii >= Len(values)
    THEN IF Len(values) % 8 # 0 THEN Append(acc, wip_byte) ELSE acc
    ELSE LET bit == values[ii + 1] - Ch_0
             bit_id == 7 - (ii % 8)
             wip == wip_byte + bit * (2 ^ bit_id)
         IN IF bit_id = 0
            THEN pack_bits(values, ii + 1, 0, Append(acc, wip))
            ELSE pack_bits(values, ii + 1, wip, acc)

\* plausible slip: is_digital written as the flag, not its negation
write_multi_bit_signal_flag_inverted(time_delta, values) ==
    [ok |-> TRUE,
     bytes |-> write_variant_u64(
                   BitOr(Shl(U64(time_delta), 1),
                         U64(IF is_digital(values) THEN 1 ELSE 0)))
               \o (IF is_digital(values) THEN pack_bits(values, 0, 0, <<>>)
                   ELSE values)]

\* write_multi_bit_signal: the bytes appended to `output` (it cannot fail on a Vec)
write_multi_bit_signal(time_delta, values) ==
    [ok |-> TRUE,
     bytes |-> write_variant_u64(
                   BitOr(Shl(U64(time_delta), 1),
                         U64(IF is_digital(values) THEN 0 ELSE 1)))
               \o (IF is_digital(values) THEN pack_bits(values, 0, 0, <<>>)
                   ELSE values)]

\* plausible slip: the time itself written, not its distance to the last one
write_time_chain_update_absolute(prev_time, current_time) ==
    write_variant_u64(U64(current_time))

\* write_time_chain_update: the bytes appended to the time table
write_time_chain_update(prev_time, current_time) ==
    write_variant_u64(U64(current_time - prev_time))

---------------------------------------------------------------------------
(* SignalBuffer (buffer.rs) *)

\* what a call returns: Ok, an FstWriteError with its fields, or a panic
Ok == [kind |-> "Ok", a |-> 0, b |-> 0]

Err(kind, a, b) == [kind |-> kind, a |-> a, b |-> b]

Panic == [kind |-> "Panic", a |-> 0, b |-> 0]

\* FstSignalId::to_array_index: handles are 1-based
to_array_index(signal_id) == signal_id - 1

RECURSIVE SumLens(_, _)
SumLens(lens, n) == IF n = 0 THEN 0 ELSE lens[n] + SumLens(lens, n - 1)

\* plausible slip: every signal placed at offset 0
gen_signal_info_no_offsets(lens) ==
    [infos |-> [i \in 0..(Len(lens) - 1) |-> [len |-> lens[i + 1], offset |-> 0]],
     values_len |-> SumLens(lens, Len(lens))]

\* gen_signal_info: the SignalInfo of every signal, and the size of the value buffer
gen_signal_info(lens) ==
    [infos |-> [i \in 0..(Len(lens) - 1) |->
                   [len |-> lens[i + 1], offset |-> SumLens(lens, i)]],
     values_len |-> SumLens(lens, Len(lens))]

\* plausible slip: the frame of a new buffer filled with '0', not with 'x'
SignalBuffer_new_zero_frame(lens) ==
    LET g == gen_signal_info(lens)
    IN [start_time |-> 0,
        end_time |-> 0,
        signals |-> g.infos,
        prev_time_table_index |-> [i \in 0..(Len(lens) - 1) |-> 0],
        frame |-> [i \in 1..g.values_len |-> Ch_0],
        values |-> [i \in 1..g.values_len |-> Ch_x],
        value_changes |-> SingleVecLists_new(Len(lens)),
        time_table |-> <<>>,
        time_table_index |-> 0,
        write_buf |-> <<>>]

\* SignalBuffer::new
SignalBuffer_new(lens) ==
    LET g == gen_signal_info(lens)
    IN [start_time |-> 0,
        end_time |-> 0,
        signals |-> g.infos,
        prev_time_table_index |-> [i \in 0..(Len(lens) - 1) |-> 0],
        frame |-> [i \in 1..g.values_len |-> Ch_x],
        values |-> [i \in 1..g.values_len |-> Ch_x],
        value_changes |-> SingleVecLists_new(Len(lens)),
        time_table |-> <<>>,
        time_table_index |-> 0,
        write_buf |-> <<>>]

\* plausible slip: `<=` for `<`, a repeated time is taken for an advance
time_change_equal_advances(self, new_time) ==
    IF new_time < self.end_time
    THEN [buf |-> self, res |-> Err("TimeDecrease", self.end_time, new_time)]
    ELSE [buf |-> [self EXCEPT
                     !.time_table = @ \o write_time_chain_update(self.end_time, new_time),
                     !.frame = IF self.time_table = <<>> THEN self.values ELSE @,
                     !.start_time = IF self.time_table = <<>> THEN new_time ELSE @,
                     !.time_table_index = IF self.time_table = <<>> THEN @ ELSE @ + 1,
                     !.end_time = new_time],
          res |-> Ok]

\* plausible slip: the Less arm missing, an earlier time is taken for a repeat
time_change_no_less_arm(self, new_time) ==
    IF new_time <= self.end_time
    THEN [buf |-> self, res |-> Ok]
    ELSE [buf |-> [self EXCEPT
                     !.time_table = @ \o write_time_chain_update(self.end_time, new_time),
                     !.frame = IF self.time_table = <<>> THEN self.values ELSE @,
                     !.start_time = IF self.time_table = <<>> THEN new_time ELSE @,
                     !.time_table_index = IF self.time_table = <<>> THEN @ ELSE @ + 1,
                     !.end_time = new_time],
          res |-> Ok]

\* plausible slip: the frame copied at every advance, not only the first one
time_change_snapshots_always(self, new_time) ==
    IF new_time < self.end_time
    THEN [buf |-> self, res |-> Err("TimeDecrease", self.end_time, new_time)]
    ELSE IF new_time = self.end_time
    THEN [buf |-> self, res |-> Ok]
    ELSE LET first_time_step == self.time_table = <<>>
         IN [buf |-> [self EXCEPT
                        !.time_table = @ \o write_time_chain_update(self.end_time, new_time),
                        !.frame = self.values,
                        !.start_time = IF first_time_step THEN new_time ELSE @,
                        !.time_table_index = IF first_time_step THEN @ ELSE @ + 1,
                        !.end_time = new_time],
             res |-> Ok]

\* plausible slip: the assignment of end_time left out
time_change_keeps_end_time(self, new_time) ==
    IF new_time < self.end_time
    THEN [buf |-> self, res |-> Err("TimeDecrease", self.end_time, new_time)]
    ELSE IF new_time = self.end_time
    THEN [buf |-> self, res |-> Ok]
    ELSE LET first_time_step == self.time_table = <<>>
         IN [buf |-> [self EXCEPT
                        !.time_table = @ \o write_time_chain_update(self.end_time, new_time),
                        !.frame = IF first_time_step THEN self.values ELSE @,
                        !.start_time = IF first_time_step THEN new_time ELSE @,
                        !.time_table_index = IF first_time_step THEN @ ELSE @ + 1],
             res |-> Ok]

\* SignalBuffer::time_change
time_change(self, new_time) ==
    IF new_time < self.end_time
    THEN [buf |-> self, res |-> Err("TimeDecrease", self.end_time, new_time)]
    ELSE IF new_time = self.end_time
    THEN [buf |-> self, res |-> Ok]
    ELSE LET first_time_step == self.time_table = <<>>
         IN [buf |-> [self EXCEPT
                        !.time_table = @ \o write_time_chain_update(self.end_time, new_time),
                        !.frame = IF first_time_step THEN self.values ELSE @,
                        !.start_time = IF first_time_step THEN new_time ELSE @,
                        !.time_table_index = IF first_time_step THEN @ ELSE @ + 1,
                        !.end_time = new_time],
             res |-> Ok]

\* Vec::resize(n, byte) on an empty vector
Fill(n, byte) == [i \in 1..n |-> byte]

\* plausible slip: x and z values padded with '0' like the binary ones
expand_special_vector_cases_zero_pad(value, len) ==
    IF Len(value) >= len THEN [kind |-> "None", bytes |-> <<>>]
    ELSE IF Len(value) = 0 THEN [kind |-> "Panic", bytes |-> <<>>]
    ELSE IF value[1] \in {Ch_0, Ch_1, Ch_x, Ch_X, Ch_z, Ch_Z}
    THEN [kind |-> "Some", bytes |-> Fill(len - Len(value), Ch_0) \o value]
    ELSE [kind |-> "None", bytes |-> <<>>]

\* expand_special_vector_cases: Some(extended), None, or the panic of value[0]
\* on an empty value
expand_special_vector_cases(value, len) ==
    IF Len(value) >= len THEN [kind |-> "None", bytes |-> <<>>]
    ELSE IF Len(value) = 0 THEN [kind |-> "Panic", bytes |-> <<>>]
    ELSE IF value[1] \in {Ch_1, Ch_0}
    THEN [kind |-> "Some", bytes |-> Fill(len - Len(value), Ch_0) \o value]
    ELSE IF value[1] \in {Ch_x, Ch_X, Ch_z, Ch_Z}
    THEN [kind |-> "Some", bytes |-> Fill(len - Len(value), value[1]) \o value]
    ELSE [kind |-> "None", bytes |-> <<>>]

\* self.values[range].copy_from_slice(value)
copy_from_slice(values, start, value) ==
    [i \in 1..Len(values) |->
        IF i > start /\ i <= start + Len(value) THEN value[i - start] ELSE values[i]]

\* plausible slip: the check for an actual change left out
signal_change_value_no_dedup(self, idx, value) ==
    LET start == self.signals[idx].offset
        updated == [self EXCEPT !.values = copy_from_slice(@, start, value)]
        delta == self.time_table_index - self.prev_time_table_index[idx]
        enc == IF Len(value) = 1 THEN write_one_bit_signal(delta, value[1])
               ELSE write_multi_bit_signal(delta, value)
    IN IF self.time_table = <<>> THEN [buf |-> updated, res |-> Ok]
       ELSE IF ~enc.ok
       THEN [buf |-> [updated EXCEPT !.write_buf = <<>>],
             res |-> Err("InvalidCharacter", value[1], 0)]
       ELSE [buf |-> [updated EXCEPT
                        !.write_buf = enc.bytes,
                        !.value_changes = append(@, idx, enc.bytes, None),
                        !.prev_time_table_index[idx] = self.time_table_index],
             res |-> Ok]

\* plausible slip: prev_time_table_index not brought up to the time-table index
signal_change_value_keeps_prev(self, idx, value) ==
    LET info == self.signals[idx]
        start == info.offset
        first_time_step == self.time_table = <<>>
        current == SubSeq(self.values, start + 1, start + info.len)
        updated == [self EXCEPT !.values = copy_from_slice(@, start, value)]
        time_table_idx_delta == self.time_table_index - self.prev_time_table_index[idx]
        enc == IF Len(value) = 1
               THEN write_one_bit_signal(time_table_idx_delta, value[1])
               ELSE write_multi_bit_signal(time_table_idx_delta, value)
    IN IF first_time_step THEN [buf |-> updated, res |-> Ok]
       ELSE IF current = value THEN [buf |-> self, res |-> Ok]
       ELSE IF time_table_idx_delta < 0 THEN [buf |-> updated, res |-> Panic]
       ELSE IF ~enc.ok
       THEN [buf |-> [updated EXCEPT !.write_buf = <<>>],
             res |-> Err("InvalidCharacter", value[1], 0)]
       ELSE [buf |-> [updated EXCEPT
                        !.write_buf = enc.bytes,
                        !.value_changes = append(@, idx, enc.bytes, None)],
             res |-> Ok]

\* plausible slip: the index after the current one remembered
signal_change_value_prev_off_by_one(self, idx, value) ==
    LET info == self.signals[idx]
        start == info.offset
        first_time_step == self.time_table = <<>>
        current == SubSeq(self.values, start + 1, start + info.len)
        updated == [self EXCEPT !.values = copy_from_slice(@, start, value)]
        time_table_idx_delta == self.time_table_index - self.prev_time_table_index[idx]
        enc == IF Len(value) = 1
               THEN write_one_bit_signal(time_table_idx_delta, value[1])
               ELSE write_multi_bit_signal(time_table_idx_delta, value)
    IN IF first_time_step THEN [buf |-> updated, res |-> Ok]
       ELSE IF current = value THEN [buf |-> self, res |-> Ok]
       ELSE IF time_table_idx_delta < 0 THEN [buf |-> updated, res |-> Panic]
       ELSE IF ~enc.ok
       THEN [buf |-> [updated EXCEPT !.write_buf = <<>>],
             res |-> Err("InvalidCharacter", value[1], 0)]
       ELSE [buf |-> [updated EXCEPT
                        !.write_buf = enc.bytes,
                        !.value_changes = append(@, idx, enc.bytes, None),
                        !.prev_time_table_index[idx] = self.time_table_index + 1],
             res |-> Ok]

\* signal_change from `let value = value_cow.as_ref()` on, for a known signal
\* and a value of the signal's length
signal_change_value(self, idx, value) ==
    LET info == self.signals[idx]
        start == info.offset
        first_time_step == self.time_table = <<>>
        current == SubSeq(self.values, start + 1, start + info.len)
        updated == [self EXCEPT !.values = copy_from_slice(@, start, value)]
        time_table_idx_delta == self.time_table_index - self.prev_time_table_index[idx]
        enc == IF Len(value) = 1
               THEN write_one_bit_signal(time_table_idx_delta, value[1])
               ELSE write_multi_bit_signal(time_table_idx_delta, value)
    IN IF first_time_step THEN [buf |-> updated, res |-> Ok]
       ELSE IF current = value THEN [buf |-> self, res |-> Ok]
       ELSE IF time_table_idx_delta < 0 THEN [buf |-> updated, res |-> Panic]
       ELSE IF ~enc.ok
       THEN [buf |-> [updated EXCEPT !.write_buf = <<>>],
             res |-> Err("InvalidCharacter", value[1], 0)]
       ELSE [buf |-> [updated EXCEPT
                        !.write_buf = enc.bytes,
                        !.value_changes = append(@, idx, enc.bytes, None),
                        !.prev_time_table_index[idx] = self.time_table_index],
             res |-> Ok]

\* plausible slip: the index taken modulo the number of signals instead of
\* the bounds check of `get`
signal_change_wraps_id(self, signal_id, value) ==
    LET idx == to_array_index(signal_id) % Cardinality(DOMAIN self.signals)
        len == self.signals[idx].len
    IN IF Len(value) = len THEN signal_change_value(self, idx, value)
       ELSE LET e == expand_special_vector_cases(value, len)
            IN IF e.kind = "Some"
               THEN signal_change_value(self, idx, e.bytes)
               ELSE [buf |-> self, res |-> Panic]

\* SignalBuffer::signal_change
signal_change(self, signal_id, value) ==
    LET idx == to_array_index(signal_id)
    IN IF idx \notin DOMAIN self.signals
       THEN [buf |-> self, res |-> Err("InvalidSignalId", signal_id, 0)]
       ELSE LET len == self.signals[idx].len
            IN IF Len(value) = len THEN signal_change_value(self, idx, value)
               ELSE LET e == expand_special_vector_cases(value, len)
                    IN IF e.kind = "Some"
                       THEN signal_change_value(self, idx, e.bytes)
                       ELSE [buf |-> self, res |-> Panic]

\* the arguments SignalBuffer::flush hands to write_value_change_section
section_of(self) ==
    [tag |-> "VcDataDynamicAlias2",
     start_time |-> self.start_time,
     end_time |-> self.end_time,
     frame |-> self.frame,
     time_table |-> self.time_table,
     time_table_entries |-> self.time_table_index + 1,
     chains |-> [i \in DOMAIN self.signals |->
                    extract_list(self.value_changes, i, None).bytes],
     num_signals |-> Cardinality(DOMAIN self.signals)]

\* plausible slip: the reset of prev_time_table_index left out
flush_keeps_prev_index(self) ==
    [section |-> section_of(self),
     buf |-> [self EXCEPT
                !.time_table_index = 0,
                !.start_time = self.end_time,
                !.time_table = <<>>,
                !.write_buf = <<>>,
                !.value_changes = SingleVecLists_clear(@)],
     ret |-> self.end_time]

\* SignalBuffer::flush: the section written, the buffer reset, end_time returned
flush(self) ==
    [section |-> section_of(self),
     buf |-> [self EXCEPT
                !.time_table_index = 0,
                !.prev_time_table_index = [i \in DOMAIN @ |-> 0],
                !.start_time = self.end_time,
                !.time_table = <<>>,
                !.write_buf = <<>>,
                !.value_changes = SingleVecLists_clear(@)],
     ret |-> self.end_time]

\* SignalBuffer::size
size(self) ==
    Len(self.time_table) + Len(self.write_buf) + SingleVecLists_size(self.value_changes)

---------------------------------------------------------------------------
(* FstHeaderWriter (writer.rs).  Names and types of scopes and variables   *)
(* are left out: the hierarchy buffer is a Cursor<Vec<u8>>, to which a     *)
(* write cannot fail.  scope_depth is a u64.                               *)

\* value + 1 on a u64, wrapping
Inc64(value) ==
    [i \in BitIdx |->
        IF \A j \in 0..(i - 1) : value[j] = 1 THEN 1 - value[i] ELSE value[i]]

\* value - 1 on a u64, wrapping
Dec64(value) ==
    [i \in BitIdx |->
        IF \A j \in 0..(i - 1) : value[j] = 0 THEN 1 - value[i] ELSE value[i]]

\* FstSignalId::from_index and to_index: the handle is the 1-based index
from_index(index) == index

to_index(signal_id) == signal_id

\* the counts of a header that were not yet known when it was written
NoCounts == [known |-> FALSE]

\* the Header block that write_header_meta_data puts first into the file
write_header_meta_data == [tag |-> "Header", counts |-> NoCounts]

\* update_header: the header at position 0 rewritten with the final counts
update_header(block, info) ==
    [block EXCEPT !.counts = [known |-> TRUE,
                              end_time |-> info.end_time,
                              scope_count |-> info.scope_count,
                              var_count |-> info.var_count,
                              max_handle |-> info.num_signals,
                              vc_section_count |-> info.num_value_change_sections]]

\* FstHeaderWriter::open
FstHeaderWriter_open ==
    [out |-> <<write_header_meta_data>>,
     hierarchy_buf |-> <<>>,
     signals |-> <<>>,
     scope_depth |-> Zero64,
     var_count |-> 0,
     scope_count |-> 0]

\* FstHeaderWriter::scope
FstHeaderWriter_scope(self) ==
    [hw |-> [self EXCEPT
               !.scope_depth = Inc64(@),
               !.scope_count = @ + 1,
               !.hierarchy_buf = Append(@, [tpe |-> "scope", len |-> 0, alias |-> 0])],
     res |-> Ok]

\* FstHeaderWriter::up_scope; the debug_assert is compiled into debug builds
\* only, in the others the decrement wraps
FstHeaderWriter_up_scope(self, debug_assertions) ==
    IF debug_assertions /\ IsZero64(self.scope_depth)
    THEN [hw |-> self, res |-> Panic]
    ELSE [hw |-> [self EXCEPT
                    !.scope_depth = Dec64(@),
                    !.hierarchy_buf = Append(@, [tpe |-> "up_scope", len |-> 0,
                                                 alias |-> 0])],
          res |-> Ok]

\* plausible slip: an alias variable gets a signal of its own
FstHeaderWriter_var_alias_allocates(self, len, alias, debug_assertions) ==
    LET counted == [self EXCEPT
                      !.var_count = @ + 1,
                      !.hierarchy_buf = Append(@,
                          [tpe |-> "var", len |-> len,
                           alias |-> IF alias.some THEN to_index(alias.len) ELSE 0])]
    IN [hw |-> [counted EXCEPT !.signals = Append(@, len)],
        res |-> Ok,
        id |-> from_index(Len(self.signals) + 1)]

\* plausible slip: the handle is the 0-based index of the signal
FstHeaderWriter_var_zero_based(self, len, alias, debug_assertions) ==
    LET counted == [self EXCEPT
                      !.var_count = @ + 1,
                      !.hierarchy_buf = Append(@,
                          [tpe |-> "var", len |-> len,
                           alias |-> IF alias.some THEN to_index(alias.len) ELSE 0])]
    IN IF alias.some
       THEN IF debug_assertions /\ ~(to_index(alias.len) <= Len(self.signals))
            THEN [hw |-> counted, res |-> Panic, id |-> 0]
            ELSE [hw |-> counted, res |-> Ok, id |-> alias.len]
       ELSE [hw |-> [counted EXCEPT !.signals = Append(@, len)],
             res |-> Ok,
             id |-> from_index(Len(self.signals))]

\* FstHeaderWriter::var for a bit vector of len bits; alias is an
\* Option<FstSignalId>, the handle in its len field; id is the handle returned
FstHeaderWriter_var(self, len, alias, debug_assertions) ==
    LET counted == [self EXCEPT
                      !.var_count = @ + 1,
                      !.hierarchy_buf = Append(@,
                          [tpe |-> "var", len |-> len,
                           alias |-> IF alias.some THEN to_index(alias.len) ELSE 0])]
    IN IF alias.some
       THEN IF debug_assertions /\ ~(to_index(alias.len) <= Len(self.signals))
            THEN [hw |-> counted, res |-> Panic, id |-> 0]
            ELSE [hw |-> counted, res |-> Ok, id |-> alias.len]
       ELSE [hw |-> [counted EXCEPT !.signals = Append(@, len)],
             res |-> Ok,
             id |-> from_index(Len(self.signals) + 1)]

\* write_hierarchy_bytes: the HierarchyLZ4 block
write_hierarchy_bytes(bytes) == [tag |-> "HierarchyLZ4", records |-> bytes]

\* write_geometry: the Geometry block
write_geometry(signals) ==
    [tag |-> "Geometry", max_handle |-> Len(signals), lengths |-> signals]

\* plausible slip: the geometry block written before the hierarchy block
finish_blocks_swapped(self) ==
    <<write_geometry(self.signals), write_hierarchy_bytes(self.hierarchy_buf)>>

\* the blocks FstHeaderWriter::finish writes
finish_blocks(self) ==
    <<write_hierarchy_bytes(self.hierarchy_buf), write_geometry(self.signals)>>

\* plausible slip: the variables counted as signals
HeaderFinishInfo_counts_vars(self) ==
    [end_time |-> 0,
     scope_count |-> self.scope_count,
     var_count |-> self.var_count,
     num_signals |-> self.var_count,
     num_value_change_sections |-> 0]

\* the HeaderFinishInfo FstHeaderWriter::finish builds
HeaderFinishInfo(self) ==
    [end_time |-> 0,
     scope_count |-> self.scope_count,
     var_count |-> self.var_count,
     num_signals |-> Len(self.signals),
     num_value_change_sections |-> 0]

\* FstHeaderWriter::finish: the body writer (out, buffer, finish_info)
FstHeaderWriter_finish(self, debug_assertions) ==
    IF debug_assertions /\ ~IsZero64(self.scope_depth)
    THEN [res |-> Panic, out |-> self.out, buffer |-> SignalBuffer_new(<<>>),
          finish_info |-> HeaderFinishInfo(self)]
    ELSE [res |-> Ok,
          out |-> self.out \o finish_blocks(self),
          buffer |-> SignalBuffer_new(self.signals),
          finish_info |-> HeaderFinishInfo(self)]

---------------------------------------------------------------------------
(* FstBodyWriter (writer.rs) over a header that registered two signals,    *)
(* handle 1 of width 1 and handle 2 of width 2.                            *)

SignalLens == <<1, 2>>

\* the largest time a caller passes
MaxTime == 3
\* the number of calls a run makes
MaxOps == 4

Times == 0..MaxTime

\* the (handle, value) pairs a caller passes to signal_change: full-length
\* values, short values to expand, and the malformed ones
WriteInputs ==
    {<<1, <<Ch_0>>>>, <<1, <<Ch_1>>>>, <<1, <<Ch_x>>>>, <<1, <<Ch_2>>>>,
     <<1, <<Ch_0, Ch_1>>>>, <<1, <<>>>>,
     <<2, <<Ch_0, Ch_1>>>>, <<2, <<Ch_1, Ch_x>>>>, <<2, <<Ch_1>>>>, <<2, <<Ch_x>>>>,
     <<2, <<Ch_2>>>>, <<2, <<Ch_0, Ch_0, Ch_0>>>>,
     <<3, <<Ch_0>>>>}

NoCall ==
    [op |-> "new", time |-> 0, id |-> 0, value |-> <<>>, res |-> Ok, changed |-> FALSE]

\* the header writer after var was called once for each signal of SignalLens
RECURSIVE Registered(_)
Registered(n) ==
    IF n = 0
    THEN FstHeaderWriter_open
    ELSE FstHeaderWriter_var(Registered(n - 1), SignalLens[n], None, FALSE).hw

\* the calls that led to Registered(n)
RegisteredCalls ==
    [n \in 1..Len(SignalLens) |->
        [op |-> "var", len |-> SignalLens[n], alias |-> None, res |-> Ok, id |-> n]]

\* the state FstHeaderWriter::finish leaves: the body writer of a file with
\* the signals of SignalLens
InitBody ==
    /\ pc = "body"
    /\ header = [hw |-> [Registered(Len(SignalLens)) EXCEPT
                           !.out = FstHeaderWriter_finish(
                                       Registered(Len(SignalLens)), FALSE).out],
                 debug_assertions |-> FALSE,
                 calls |-> Append(RegisteredCalls,
                                  [op |-> "finish", len |-> 0, alias |-> None,
                                   res |-> Ok, id |-> 0])]
    /\ buf = FstHeaderWriter_finish(Registered(Len(SignalLens)), FALSE).buffer
    /\ out = <<>>
    /\ finish_info = FstHeaderWriter_finish(Registered(Len(SignalLens)), FALSE).finish_info
    /\ call = NoCall

\* plausible slip: a section counted twice
count_section_twice(info) ==
    [info EXCEPT !.num_value_change_sections = @ + 2]

\* self.finish_info.num_value_change_sections += 1
count_section(info) ==
    [info EXCEPT !.num_value_change_sections = @ + 1]

\* FstBodyWriter::time_change
BodyTimeChange(t) ==
    /\ pc = "body"
    /\ buf' = time_change(buf, t).buf
    /\ call' = [op |-> "time_change", time |-> t, id |-> 0, value |-> <<>>,
                res |-> time_change(buf, t).res,
                changed |-> time_change(buf, t).buf # buf]
    /\ UNCHANGED <<pc, out, finish_info, header>>

\* FstBodyWriter::signal_change; a panic ends the program
BodySignalChange(id, value) ==
    /\ pc = "body"
    /\ LET r == signal_change(buf, id, value)
       IN /\ buf' = r.buf
          /\ pc' = IF r.res.kind = "Panic" THEN "aborted" ELSE pc
          /\ call' = [op |-> "signal_change", time |-> 0, id |-> id, value |-> value,
                      res |-> r.res, changed |-> r.buf # buf]
    /\ UNCHANGED <<out, finish_info, header>>

\* FstBodyWriter::flush
BodyFlush ==
    /\ pc = "body"
    /\ out' = Append(out, flush(buf).section)
    /\ buf' = flush(buf).buf
    /\ finish_info' = count_section(finish_info)
    /\ call' = [op |-> "flush", time |-> 0, id |-> 0, value |-> <<>>, res |-> Ok,
                changed |-> flush(buf).buf # buf]
    /\ UNCHANGED <<pc, header>>

\* plausible slip: the header rewritten before the result of the flush is looked at
FstBodyWriter_finish_patches_first(info, block, flushed) ==
    LET updated == [count_section(info) EXCEPT !.end_time = flushed.ret]
    IN [res |-> flushed.res, block |-> update_header(block, updated),
        finish_info |-> updated]

\* FstBodyWriter::finish after self.buffer.flush returned `flushed`: what it
\* returns, the header block at position 0 and the finish info
FstBodyWriter_finish(info, block, flushed) ==
    IF flushed.res # Ok
    THEN [res |-> flushed.res, block |-> block, finish_info |-> info]
    ELSE LET updated == [count_section(info) EXCEPT !.end_time = flushed.ret]
         IN [res |-> Ok, block |-> update_header(block, updated),
             finish_info |-> updated]

\* an output stream with nothing written to it (see the block writers)
Cursor_new == [bytes |-> <<>>, pos |-> 0, overwritten |-> {}]

\* no call made yet
NoIoCall == [op |-> "none", r |-> [res |-> Ok]]

\* the block-writer harness at rest
IoIdle == disk = [cur |-> Cursor_new, n |-> 0, last |-> NoIoCall]

\* the value-encoder harness at rest
EncIdle == encoder = [pc |-> "idle"]

\* FstBodyWriter::finish
BodyFinish ==
    /\ pc = "body"
    /\ out' = Append(out, flush(buf).section)
    /\ buf' = flush(buf).buf
    /\ LET r == FstBodyWriter_finish(finish_info, header.hw.out[1],
                                     [res |-> Ok, ret |-> flush(buf).ret])
       IN /\ finish_info' = r.finish_info
          /\ header' = [header EXCEPT !.hw.out[1] = r.block]
    /\ call' = [op |-> "finish", time |-> 0, id |-> 0, value |-> <<>>, res |-> Ok,
                changed |-> flush(buf).buf # buf]
    /\ pc' = "closed"

ListsIdle ==
    /\ dut = SingleVecLists_new(0) /\ reference = MultiVecLists_new(0) /\ fixed = None

TraceIdle ==
    /\ steps = 0 /\ written = <<>> /\ twin = <<>>

Init == InitBody /\ TraceIdle /\ ListsIdle /\ VariantIdle /\ IoIdle /\ EncIdle

\* a run of at most MaxOps calls; the record of the run is not kept
Counted ==
    /\ steps < MaxOps
    /\ steps' = steps + 1
    /\ UNCHANGED <<written, twin, listVars, variantVars, ioVars, encVars>>

TimeChange(t) == BodyTimeChange(t) /\ Counted

SignalChange(id, value) == BodySignalChange(id, value) /\ Counted

Flush == BodyFlush /\ Counted

Finish == BodyFinish /\ Counted

Next ==
    \/ \E t \in Times : TimeChange(t)
    \/ \E w \in WriteInputs : SignalChange(w[1], w[2])
    \/ Flush
    \/ Finish

Spec == Init /\ [][Next]_vars

---------------------------------------------------------------------------
(* Runs whose record is kept: the accepted writes and times, and the same  *)
(* calls replayed on a writer that makes no explicit flush.                *)

InitTrace ==
    /\ InitBody /\ ListsIdle /\ VariantIdle /\ IoIdle /\ EncIdle
    /\ steps = 0
    /\ written = [sig |-> [i \in 0..(Len(SignalLens) - 1) |-> <<>>],
                  times |-> <<>>, clean |-> TRUE,
                  touched |-> {}, snapped |-> {}]
    /\ twin = [buf |-> SignalBuffer_new(SignalLens), out |-> <<>>]

CountedTrace ==
    /\ steps < MaxOps
    /\ steps' = steps + 1
    /\ UNCHANGED <<listVars, variantVars, ioVars, encVars>>

TraceTimeChange(t) ==
    /\ BodyTimeChange(t) /\ CountedTrace
    /\ written' = [written EXCEPT
                     !.times = IF t > buf.end_time THEN Append(@, t) ELSE @,
                     !.snapped = IF t > buf.end_time /\ buf.time_table = <<>>
                                 THEN written.touched ELSE @,
                     !.clean = @ /\ time_change(buf, t).res = Ok]
    /\ twin' = [twin EXCEPT !.buf = time_change(twin.buf, t).buf]

TraceSignalChange(id, value) ==
    /\ BodySignalChange(id, value) /\ CountedTrace
    /\ LET r == signal_change(buf, id, value)
           idx == to_array_index(id)
           info == buf.signals[idx]
       IN written' = [written EXCEPT
              !.sig = IF r.res = Ok /\ r.buf.values # buf.values
                      THEN [@ EXCEPT ![idx] = Append(@,
                               <<buf.end_time,
                                 SubSeq(r.buf.values, info.offset + 1,
                                        info.offset + info.len)>>)]
                      ELSE @,
              !.touched = IF idx \in DOMAIN buf.prev_time_table_index
                          THEN @ \cup {idx} ELSE @,
              !.clean = @ /\ r.res = Ok /\ signal_change(twin.buf, id, value).res = Ok]
    /\ twin' = [twin EXCEPT !.buf = signal_change(twin.buf, id, value).buf]

TraceFlush == BodyFlush /\ CountedTrace /\ UNCHANGED <<written, twin>>

TraceFinish ==
    /\ BodyFinish /\ CountedTrace
    /\ twin' = [buf |-> flush(twin.buf).buf,
                out |-> Append(twin.out, flush(twin.buf).section)]
    /\ UNCHANGED written

NextTrace ==
    \/ \E t \in Times : TraceTimeChange(t)
    \/ \E w \in WriteInputs : TraceSignalChange(w[1], w[2])
    \/ TraceFlush
    \/ TraceFinish

SpecTrace == InitTrace /\ [][NextTrace]_vars

---------------------------------------------------------------------------
(* The chain-store harness: do_test_lists_var_len, do_test_lists_fixed_len *)

\* lists of the harness
NumLists == 2
\* appends a run makes
MaxAppends == 3
\* length of the long record, which needs a two-byte length
LongLen == 130
\* the largest fixed record length: `len as usize + 1` for a u8
MaxFixedLen == 256

Ramp(n, m) == [i \in 1..n |-> (i * m) % 256]

VarPayloads == {<<>>, <<0>>, <<255, 128>>, Ramp(LongLen, 1)}

FixedLens == {1, 2, MaxFixedLen}

FixedPayloads(len) == {Ramp(len, 1), Ramp(len, 7)}

InitLists ==
    /\ InitBody /\ TraceIdle /\ VariantIdle /\ IoIdle /\ EncIdle
    /\ fixed \in {None} \cup {Some(l) : l \in FixedLens}
    /\ dut = SingleVecLists_new(NumLists)
    /\ reference = MultiVecLists_new(NumLists)

\* one round of the harness's write loop
ListAppend(list_id, data) ==
    /\ steps < MaxAppends
    /\ steps' = steps + 1
    /\ dut' = append(dut, list_id, data, fixed)
    /\ reference' = MultiVecLists_append(reference, list_id, data)
    /\ UNCHANGED <<fixed, written, twin, bodyVars, headerVars, variantVars, ioVars, encVars>>

NextLists ==
    \E list_id \in 0..(NumLists - 1) :
        \E data \in (IF fixed.some THEN FixedPayloads(fixed.len) ELSE VarPayloads) :
            ListAppend(list_id, data)

SpecLists == InitLists /\ [][NextLists]_vars

---------------------------------------------------------------------------
(* The variant-integer harness *)

InitVariantHarness == InitVariant /\ InitBody /\ TraceIdle /\ ListsIdle /\ IoIdle /\ EncIdle

NextVariant ==
    \/ WriteVariant /\ UNCHANGED <<bodyVars, headerVars, traceVars, listVars, ioVars, encVars>>
    \/ ReadVariant /\ UNCHANGED <<bodyVars, headerVars, traceVars, listVars, ioVars, encVars>>

SpecVariant == InitVariantHarness /\ [][NextVariant]_vars

----------------------------------------------------------------------------
(* The block writers on the bytes of the output (io.rs).  The output is a  *)
(* Write + Seek stream: its bytes, its position, and the positions at      *)
(* which a write replaced a byte that was already there.  The writes of    *)
(* the stream itself are taken to succeed.                                 *)

\* Write::write_all at the position of the stream
write_all(output, data) ==
    LET last_pos == output.pos + Len(data)
        new_len == IF last_pos > Len(output.bytes) THEN last_pos ELSE Len(output.bytes)
    IN [bytes |-> [i \in 1..new_len |->
                      IF i > output.pos /\ i <= last_pos
                      THEN data[i - output.pos] ELSE output.bytes[i]],
        pos |-> last_pos,
        overwritten |-> output.overwritten
                          \cup {i \in (output.pos + 1)..last_pos : i <= Len(output.bytes)}]

\* Seek::seek(SeekFrom::Start(position)); stream_position is the field pos
seek(output, position) == [output EXCEPT !.pos = position]

\* u64::to_be_bytes
to_be_bytes(value) ==
    [i \in 1..8 |->
        LET low == (8 - i) * 8
        IN value[low] + 2 * value[low + 1] + 4 * value[low + 2] + 8 * value[low + 3]
           + 16 * value[low + 4] + 32 * value[low + 5] + 64 * value[low + 6]
           + 128 * value[low + 7]]

write_u64(output, value) == write_all(output, to_be_bytes(U64(value)))

write_u8(output, value) == write_all(output, <<value>>)

\* i8::to_be_bytes: the byte of the two's complement
write_i8(output, value) == write_all(output, <<(value + 256) % 256>>)

\* f64::to_le_bytes of std::f64::consts::E, 0x4005BF0A8B145769
DOUBLE_ENDIAN_TEST == <<105, 87, 20, 139, 10, 191, 5, 64>>

write_f64(output, le_bytes) == write_all(output, le_bytes)

HEADER_LENGTH == 329
HEADER_VERSION_MAX_LEN == 128
HEADER_DATE_MAX_LEN == 119

BlockType_Header == 0
BlockType_Geometry == 3
BlockType_HierarchyLZ4 == 6
BlockType_VcDataDynamicAlias2 == 8

\* plausible slip: `>` for `>=`, a string of max_len bytes is let through
write_c_str_fixed_length_allows_equal(output, value, max_len) ==
    IF Len(value) > max_len
    THEN [res |-> Err("StringTooLong", max_len, value), cur |-> output]
    ELSE [res |-> Ok,
          cur |-> write_all(write_all(output, value), Fill(max_len - Len(value), 0))]

\* write_c_str_fixed_length
write_c_str_fixed_length(output, value, max_len) ==
    IF Len(value) >= max_len
    THEN [res |-> Err("StringTooLong", max_len, value), cur |-> output]
    ELSE [res |-> Ok,
          cur |-> write_all(write_all(output, value), Fill(max_len - Len(value), 0))]

\* write_header; every `?` on a result that is not Ok returns it, with the
\* bytes written so far left in the stream
write_header(output, h) ==
    LET o1 == write_u8(output, BlockType_Header)
        o2 == write_u64(o1, HEADER_LENGTH)
        o3 == write_u64(o2, h.start_time)
        o4 == write_u64(o3, h.end_time)
        o5 == write_f64(o4, DOUBLE_ENDIAN_TEST)
        o6 == write_u64(o5, h.memory_used_by_writer)
        o7 == write_u64(o6, h.scope_count)
        o8 == write_u64(o7, h.var_count)
        o9 == write_u64(o8, h.max_signal_id)
        o10 == write_u64(o9, h.vc_section_count)
        o11 == write_i8(o10, h.timescale_exponent)
        v == write_c_str_fixed_length(o11, h.version, HEADER_VERSION_MAX_LEN)
        d == write_c_str_fixed_length(v.cur, h.date, HEADER_DATE_MAX_LEN)
    IN IF v.res # Ok THEN v
       ELSE IF d.res # Ok THEN d
       ELSE [res |-> Ok,
             cur |-> write_u64(write_u8(d.cur, h.file_type), h.time_zero)]

\* lz4_flex::compress on an input too short to hold a match (the format
\* needs 13 bytes): one sequence of literals, the length in the high half of
\* the token
lz4_flex_compress(bytes) == <<Len(bytes) * 16>> \o bytes

\* plausible slip: the seek back to the end left out
write_hierarchy_bytes_to_no_seek_back(output, bytes) ==
    LET o1 == write_u8(output, BlockType_HierarchyLZ4)
        start == o1.pos
        o2 == write_u64(o1, 0)
        o3 == write_u64(o2, Len(bytes))
        out2 == write_all(o3, lz4_flex_compress(bytes))
        end == out2.pos
    IN [res |-> Ok, start |-> start, end |-> end, body |-> out2,
        cur |-> write_u64(seek(out2, start), end - start)]

\* write_hierarchy_bytes on the bytes of the output: the result, the stream,
\* the positions start and end, and the stream as it was before the fix
write_hierarchy_bytes_to(output, bytes) ==
    LET o1 == write_u8(output, BlockType_HierarchyLZ4)
        start == o1.pos
        o2 == write_u64(o1, 0)
        o3 == write_u64(o2, Len(bytes))
        out2 == write_all(o3, lz4_flex_compress(bytes))
        end == out2.pos
    IN [res |-> Ok, start |-> start, end |-> end, body |-> out2,
        cur |-> seek(write_u64(seek(out2, start), end - start), end)]

\* FstSignalType::to_file_format of a bit vector: its width
to_file_format(signal) == signal

\* the geometry entries, one variant integer per signal
RECURSIVE geometry_entries(_)
geometry_entries(signals) ==
    IF signals = <<>> THEN <<>>
    ELSE write_variant_u64(U64(to_file_format(Head(signals))))
            \o geometry_entries(Tail(signals))

\* write_geometry on the bytes of the output
write_geometry_to(output, signals) ==
    LET o1 == write_u8(output, BlockType_Geometry)
        start == o1.pos
        o2 == write_u64(o1, 0)
        o3 == write_u64(o2, 0)
        o4 == write_u64(o3, Len(signals))
        o5 == write_all(o4, geometry_entries(signals))
        end == o5.pos
        section_len == end - start
        p1 == write_u64(seek(o5, start), section_len)
        p2 == write_u64(p1, section_len - 3 * 8)
    IN [res |-> Ok, start |-> start, end |-> end, body |-> o5,
        cur |-> seek(p2, end)]

\* write_value_change_section (io.rs; the section without its value data)
write_value_change_section(output, start_time, end_time, time_table, time_table_entries) ==
    LET o1 == write_u8(output, BlockType_VcDataDynamicAlias2)
        start == o1.pos
        o2 == write_u64(o1, 0)
        o3 == write_u64(o2, start_time)
        o4 == write_u64(o3, end_time)
        o5 == write_all(o4, time_table)
        o6 == write_u64(o5, Len(time_table))
        o7 == write_u64(o6, Len(time_table))
        o8 == write_u64(o7, time_table_entries)
        end == o8.pos
        section_len == end - start
    IN [res |-> Ok, start |-> start, end |-> end, body |-> o8,
        cur |-> seek(write_u64(seek(o8, start), section_len), end)]

----------------------------------------------------------------------------
(* The block-writer harness: the writers of io.rs called one after the     *)
(* other on one stream, until a call returns an error.                     *)

MaxBlocks == 2

\* a string of n bytes, 'a' to 'z' in turn
Str(n) == [i \in 1..n |-> 97 + (i % 26)]

VersionLens == {0, HEADER_VERSION_MAX_LEN - 1, HEADER_VERSION_MAX_LEN}
DateLens == {0, HEADER_DATE_MAX_LEN - 1, HEADER_DATE_MAX_LEN}
FixedWidths == {3, HEADER_DATE_MAX_LEN, HEADER_VERSION_MAX_LEN}
StrLens == {0, 2, 3, HEADER_DATE_MAX_LEN - 1, HEADER_DATE_MAX_LEN,
            HEADER_VERSION_MAX_LEN - 1, HEADER_VERSION_MAX_LEN}
HierarchyBuffers == {<<>>, <<254, 0, 97, 0, 0>>, Str(12)}
GeometrySignals == {<<>>, <<1, 2>>, <<200, 1>>}
TimeTables == {<<0, <<>>, 1>>, <<1, <<1>>, 1>>, <<3, <<1, 2>>, 2>>}

InitIo == InitBody /\ TraceIdle /\ ListsIdle /\ VariantIdle /\ IoIdle /\ EncIdle

\* a call may follow when the calls before it returned Ok
IoReady == disk.n < MaxBlocks /\ disk.last.r.res = Ok

\* the stream a call starts on: nothing overwritten by this call yet
IoStart == [disk.cur EXCEPT !.overwritten = {}]

IoDone(op, args, r) ==
    disk' = [cur |-> r.cur, n |-> disk.n + 1,
             last |-> [op |-> op, args |-> args, before |-> IoStart, r |-> r]]

IoWriteHeader(version, date, exponent) ==
    /\ IoReady
    /\ LET h == [start_time |-> 0, end_time |-> 0, memory_used_by_writer |-> 0,
                 scope_count |-> 0, var_count |-> 0, max_signal_id |-> 0,
                 vc_section_count |-> 0, timescale_exponent |-> exponent,
                 version |-> version, date |-> date, file_type |-> 0,
                 time_zero |-> 0]
       IN IoDone("header", h, write_header(IoStart, h))
    /\ UNCHANGED <<bodyVars, headerVars, traceVars, listVars, variantVars, encVars>>

IoWriteCStrFixedLength(value, max_len) ==
    /\ IoReady
    /\ IoDone("c_str", [value |-> value, max_len |-> max_len],
              write_c_str_fixed_length(IoStart, value, max_len))
    /\ UNCHANGED <<bodyVars, headerVars, traceVars, listVars, variantVars, encVars>>

IoWriteHierarchyBytes(bytes) ==
    /\ IoReady
    /\ IoDone("hierarchy", [bytes |-> bytes], write_hierarchy_bytes_to(IoStart, bytes))
    /\ UNCHANGED <<bodyVars, headerVars, traceVars, listVars, variantVars, encVars>>

IoWriteGeometry(signals) ==
    /\ IoReady
    /\ IoDone("geometry", [signals |-> signals], write_geometry_to(IoStart, signals))
    /\ UNCHANGED <<bodyVars, headerVars, traceVars, listVars, variantVars, encVars>>

IoWriteValueChangeSection(end_time, time_table, entries) ==
    /\ IoReady
    /\ IoDone("value_change", [time_table |-> time_table],
              write_value_change_section(IoStart, 0, end_time, time_table, entries))
    /\ UNCHANGED <<bodyVars, headerVars, traceVars, listVars, variantVars, encVars>>

NextIo ==
    \/ \E vl \in VersionLens, dl \in DateLens : IoWriteHeader(Str(vl), Str(dl), -9)
    \/ \E n \in StrLens, w \in FixedWidths : IoWriteCStrFixedLength(Str(n), w)
    \/ \E b \in HierarchyBuffers : IoWriteHierarchyBytes(b)
    \/ \E g \in GeometrySignals : IoWriteGeometry(g)
    \/ \E t \in TimeTables : IoWriteValueChangeSection(t[1], t[2], t[3])

SpecIo == InitIo /\ [][NextIo]_vars

----------------------------------------------------------------------------
(* The value-encoder harness: write_one_bit_signal and                     *)
(* write_multi_bit_signal called once on an empty output, with a time      *)
(* delta and a value drawn from the sets below.                            *)

\* the largest time delta is 2 ^ MaxDeltaShift
MaxDeltaShift == 20
\* the longest vector of bits
MaxPacked == 17

DeltaInputs == {0, 1, 2, 3, 8, 2 ^ MaxDeltaShift}

\* the bytes write_one_bit_signal is called with: the binary and the
\* nine-value characters, and bytes that are neither
OneBitInputs ==
    {Ch_0, Ch_1, Ch_x, Ch_X, Ch_z, Ch_Z, Ch_h, Ch_H, Ch_u, Ch_U, Ch_w, Ch_W,
     Ch_l, Ch_L, Ch_minus, Ch_quest}
    \cup {0, Ch_0 - 1, Ch_2, Ch_x + 1, 255}

\* n characters, '0' and '1' in runs of m
Pattern(n, m) == [i \in 1..n |-> Ch_0 + ((i \div m) % 2)]

PackedLens == {7, 8, 9, MaxPacked - 1, MaxPacked}

\* the values write_multi_bit_signal is called with
MultiBitInputs ==
    {<<>>}
    \cup UNION {[1..n -> {Ch_0, Ch_1, Ch_x}] : n \in 2..3}
    \cup {Pattern(n, m) : n \in PackedLens, m \in 1..3}
    \cup {[Pattern(n, 1) EXCEPT ![n] = Ch_z] : n \in PackedLens}

InitEncoder ==
    /\ InitBody /\ TraceIdle /\ ListsIdle /\ VariantIdle /\ IoIdle
    /\ \/ \E d \in DeltaInputs, v \in OneBitInputs :
             encoder = [pc |-> "input", op |-> "one_bit", delta |-> d,
                        value |-> <<v>>]
       \/ \E d \in DeltaInputs, v \in MultiBitInputs :
             encoder = [pc |-> "input", op |-> "multi_bit", delta |-> d,
                        value |-> v]

EncodeOneBit ==
    /\ encoder.pc = "input" /\ encoder.op = "one_bit"
    /\ encoder' = [pc |-> "encoded", op |-> encoder.op, delta |-> encoder.delta,
                   value |-> encoder.value,
                   r |-> write_one_bit_signal(encoder.delta, encoder.value[1])]
    /\ UNCHANGED <<bodyVars, headerVars, traceVars, listVars, variantVars, ioVars>>

EncodeMultiBit ==
    /\ encoder.pc = "input" /\ encoder.op = "multi_bit"
    /\ encoder' = [pc |-> "encoded", op |-> encoder.op, delta |-> encoder.delta,
                   value |-> encoder.value,
                   r |-> write_multi_bit_signal(encoder.delta, encoder.value)]
    /\ UNCHANGED <<bodyVars, headerVars, traceVars, listVars, variantVars, ioVars>>

NextEncoder == EncodeOneBit \/ EncodeMultiBit

SpecEncoder == InitEncoder /\ [][NextEncoder]_vars

---------------------------------------------------------------------------
(* The life of a file: open, the header phase, FstHeaderWriter::finish,    *)
(* the body phase, FstBodyWriter::finish.  The two writer types take the   *)
(* place of pc: a call of one phase cannot be written for the writer of    *)
(* another, and both finish methods consume their writer.  written counts  *)
(* the explicit flush calls that succeeded and those that failed.          *)

\* the number of calls made on a file
MaxFileOps == 5

\* the (width, alias) pairs passed to var
FileVarInputs == {<<1, None>>, <<2, None>>, <<1, Some(1)>>, <<1, Some(2)>>}

\* the (handle, value) pairs passed to signal_change
FileWrites == {<<1, <<Ch_1>>>>, <<2, <<Ch_1>>>>}

InitFile ==
    /\ pc = "header"
    /\ \E debug_assertions \in BOOLEAN :
          header = [hw |-> FstHeaderWriter_open,
                    debug_assertions |-> debug_assertions,
                    calls |-> <<>>]
    /\ buf = SignalBuffer_new(<<>>)
    /\ out = <<>>
    /\ finish_info = HeaderFinishInfo(FstHeaderWriter_open)
    /\ call = NoCall
    /\ steps = 0
    /\ written = [flushes |-> 0, failed_flushes |-> 0]
    /\ twin = <<>>
    /\ ListsIdle /\ VariantIdle /\ IoIdle /\ EncIdle

CountedFile ==
    /\ steps < MaxFileOps
    /\ steps' = steps + 1
    /\ UNCHANGED <<twin, listVars, variantVars, ioVars, encVars>>

\* a call on the header writer that returned r
HeaderCall(op, len, alias, r) ==
    /\ pc = "header"
    /\ header' = [header EXCEPT
                    !.hw = r.hw,
                    !.calls = Append(@, [op |-> op, len |-> len, alias |-> alias,
                                         res |-> r.res, id |-> r.id])]
    /\ pc' = IF r.res = Panic THEN "aborted" ELSE pc
    /\ UNCHANGED <<buf, out, finish_info, call, written>>
    /\ CountedFile

HeaderScope ==
    /\ pc = "header"
    /\ LET r == FstHeaderWriter_scope(header.hw)
       IN HeaderCall("scope", 0, None, [hw |-> r.hw, res |-> r.res, id |-> 0])

HeaderUpScope ==
    /\ pc = "header"
    /\ LET r == FstHeaderWriter_up_scope(header.hw, header.debug_assertions)
       IN HeaderCall("up_scope", 0, None, [hw |-> r.hw, res |-> r.res, id |-> 0])

HeaderVar(len, alias) ==
    /\ pc = "header"
    /\ HeaderCall("var", len, alias,
                  FstHeaderWriter_var(header.hw, len, alias, header.debug_assertions))

\* FstHeaderWriter::finish: the body writer takes over the output
HeaderFinish ==
    /\ pc = "header"
    /\ LET r == FstHeaderWriter_finish(header.hw, header.debug_assertions)
       IN /\ header' = [header EXCEPT
                          !.hw.out = r.out,
                          !.calls = Append(@, [op |-> "finish", len |-> 0,
                                               alias |-> None, res |-> r.res,
                                               id |-> 0])]
          /\ pc' = IF r.res = Panic THEN "aborted" ELSE "body"
          /\ buf' = IF r.res = Panic THEN buf ELSE r.buffer
          /\ finish_info' = IF r.res = Panic THEN finish_info ELSE r.finish_info
    /\ UNCHANGED <<out, call, written>>
    /\ CountedFile

FileTimeChange(t) ==
    BodyTimeChange(t) /\ CountedFile /\ UNCHANGED written

FileSignalChange(id, value) ==
    BodySignalChange(id, value) /\ CountedFile /\ UNCHANGED written

FileFlush ==
    /\ BodyFlush /\ CountedFile
    /\ written' = [written EXCEPT !.flushes = @ + 1]

\* FstBodyWriter::flush when a write to the output fails: `?` returns the
\* Io error before the buffer is reset and before the section is counted;
\* what reached the output is no complete block
FileFlushFails ==
    /\ pc = "body"
    /\ call' = [op |-> "flush", time |-> 0, id |-> 0, value |-> <<>>,
                res |-> Err("Io", 0, 0), changed |-> FALSE]
    /\ written' = [written EXCEPT !.failed_flushes = @ + 1]
    /\ UNCHANGED <<pc, buf, out, finish_info, header>>
    /\ CountedFile

FileFinish ==
    BodyFinish /\ CountedFile /\ UNCHANGED written

\* FstBodyWriter::finish when a write to the output fails: the writer is
\* consumed, the header is not updated
FileFinishFails ==
    /\ pc = "body"
    /\ pc' = "failed"
    /\ LET r == FstBodyWriter_finish(finish_info, header.hw.out[1],
                                     [res |-> Err("Io", 0, 0), ret |-> 0])
       IN /\ call' = [op |-> "finish", time |-> 0, id |-> 0, value |-> <<>>,
                      res |-> r.res, changed |-> FALSE]
          /\ finish_info' = r.finish_info
          /\ header' = [header EXCEPT !.hw.out[1] = r.block]
    /\ UNCHANGED <<buf, out, written>>
    /\ CountedFile

NextFile ==
    \/ HeaderScope
    \/ HeaderUpScope
    \/ \E v \in FileVarInputs : HeaderVar(v[1], v[2])
    \/ HeaderFinish
    \/ FileTimeChange(1)
    \/ \E w \in FileWrites : FileSignalChange(w[1], w[2])
    \/ FileFlush
    \/ FileFlushFails
    \/ FileFinish
    \/ FileFinishFails

SpecFile == InitFile /\ [][NextFile]_vars

---------------------------------------------------------------------------
(* Properties *)

\* C10: for every u64 v, read_variant_u64 applied to the bytes that
\* write_variant_u64(v) produced returns (v, n), where n is the number of
\* bytes written and the count write_variant_u64 returned, 1 <= n <= 10;
\* v = 0 is written as the single byte 0x00.
C10_VariantRoundTrip ==
    /\ vpc = "read" =>
          /\ vdec.ok
          /\ vdec.val = vin
          /\ vdec.n = Len(vbytes)
          /\ vdec.n = vcount
          /\ vdec.n >= 1 /\ vdec.n <= 10
    /\ (vpc \in {"written", "read"} /\ vin = Zero64) => vbytes = <<0>>

\* 2^64 - 1 has been written in ten bytes and read back
C10_Witness ==
    vpc = "read" /\ vin = LowOnes(U64Bits) /\ vdec.n = 10 /\ vdec.val = vin

\* C3: variable-length mode: after any sequence of append(list, bytes, None)
\* over the lists, in any interleaving and with empty byte strings among
\* them, extract_list(i, None) is, for every list i, what the
\* one-vector-per-list reference holds for i.
C3_VarLenEquivalence ==
    ~fixed.some =>
        \A i \in DOMAIN dut.lists_last :
            extract_list(dut, i, None)
                = [ok |-> TRUE, bytes |-> MultiVecLists_extract_list(reference, i)]

\* list 0 holds the long record and a one-byte record, and list 1 received
\* an empty byte string between the two
C3_Witness ==
    /\ ~fixed.some /\ steps = 3
    /\ reference.lists[0] = Ramp(LongLen, 1) \o <<0>>
    /\ reference.lists[1] = <<>>
    /\ dut.lists_last[1] > 1 /\ dut.lists_last[1] < dut.lists_last[0]

\* C4: fixed-length mode: for a record length len in 1..256 and any sequence
\* of append(list, record, Some(len)) with len-byte records,
\* extract_list(i, Some(len)) is, for every list i, what the reference holds.
C4_FixedLenEquivalence ==
    fixed.some =>
        \A i \in DOMAIN dut.lists_last :
            extract_list(dut, i, fixed)
                = [ok |-> TRUE, bytes |-> MultiVecLists_extract_list(reference, i)]

\* two different 256-byte records in list 0, one record of list 1 in between
C4_Witness ==
    /\ fixed = Some(MaxFixedLen) /\ steps = 3
    /\ reference.lists[0] = Ramp(MaxFixedLen, 7) \o Ramp(MaxFixedLen, 1)
    /\ dut.lists_last[1] > 1 /\ dut.lists_last[1] < dut.lists_last[0]

\* the bytes of signal idx in the current-value cache
CurrentValue(self, idx) ==
    SubSeq(self.values, self.signals[idx].offset + 1,
           self.signals[idx].offset + self.signals[idx].len)

\* C1: time_change(t) with t < end_time returns TimeDecrease(end_time, t),
\* leaves every field of the buffer as it was and emits nothing.
C1_TimeDecreaseRejected ==
    [][(call'.op = "time_change" /\ pc = "body" /\ call'.time < buf.end_time)
         => /\ call'.res = Err("TimeDecrease", buf.end_time, call'.time)
            /\ buf' = buf
            /\ out' = out
            /\ finish_info' = finish_info
            /\ pc' = pc]_vars

\* an earlier time was refused by a buffer that holds a time table and a
\* value-change record
C1_Witness ==
    /\ call.op = "time_change" /\ call.res.kind = "TimeDecrease"
    /\ call.time < buf.end_time
    /\ buf.time_table # <<>> /\ buf.value_changes.data # <<>>

\* C2: time_change(t) with t = end_time returns Ok and changes nothing: no
\* time-table entry is appended, and time_table_index, start_time, frame and
\* values stay as they were.
C2_EqualTimeNoOp ==
    [][(call'.op = "time_change" /\ pc = "body" /\ call'.time = buf.end_time)
         => /\ call'.res = Ok
            /\ buf' = buf
            /\ out' = out
            /\ finish_info' = finish_info
            /\ pc' = pc]_vars

\* the current time was passed again to a buffer that holds a time table and
\* a value-change record
C2_Witness ==
    /\ call.op = "time_change" /\ call.res = Ok /\ ~call.changed
    /\ call.time = buf.end_time /\ buf.end_time > 0
    /\ buf.time_table # <<>> /\ buf.value_changes.data # <<>>

\* the first bytes a short value may start with
ShortFirstBytes == {Ch_0, Ch_1, Ch_x, Ch_X, Ch_z, Ch_Z}

\* a value left-padded to len bytes: with '0' after a leading '0' or '1',
\* else with the leading byte
LeftPadded(value, len) ==
    [i \in 1..len |->
        IF i <= len - Len(value)
        THEN (IF value[1] \in {Ch_0, Ch_1} THEN Ch_0 ELSE value[1])
        ELSE value[i - (len - Len(value))]]

\* a value of the signal's length, or a short one that can be expanded
Normalizable(value, len) ==
    \/ Len(value) = len
    \/ Len(value) > 0 /\ Len(value) < len /\ value[1] \in ShortFirstBytes

\* C8: once time has advanced in the section, a signal_change whose
\* normalized value is the signal's current value appends no record and
\* changes nothing.
C8_Dedup ==
    [][(/\ call'.op = "signal_change" /\ pc = "body"
        /\ buf.time_table # <<>>
        /\ to_array_index(call'.id) \in DOMAIN buf.signals
        /\ Normalizable(call'.value, buf.signals[to_array_index(call'.id)].len)
        /\ LeftPadded(call'.value, buf.signals[to_array_index(call'.id)].len)
              = CurrentValue(buf, to_array_index(call'.id)))
         => /\ call'.res = Ok
            /\ buf' = buf
            /\ out' = out
            /\ pc' = pc]_vars

\* after a time advance signal 2 was written "01" and then "1" again, which
\* left the one record in its chain
C8_Witness ==
    /\ call.op = "signal_change" /\ call.res = Ok /\ ~call.changed
    /\ call.id = 2 /\ call.value = <<Ch_1>>
    /\ buf.time_table # <<>>
    /\ CurrentValue(buf, 1) = <<Ch_0, Ch_1>>
    /\ extract_list(buf.value_changes, 1, None).bytes # <<>>

\* the short values of a signal of width len: 1 to MaxShort bytes, the first
\* one of ShortFirstBytes
MaxShort == 2

ShortValues(len) ==
    UNION {{v \in [1..n -> ShortFirstBytes \cup {Ch_2}] : v[1] \in ShortFirstBytes} :
              n \in 1..(IF len - 1 < MaxShort THEN len - 1 ELSE MaxShort)}

\* signals of width 4 and 8, before and after the first time advance and
\* after a first value change
WideBuffers ==
    LET b0 == SignalBuffer_new(<<4, 8>>)
        b1 == time_change(b0, 1).buf
        b2 == signal_change(b1, 2, <<Ch_0, Ch_0, Ch_0, Ch_0, Ch_0, Ch_0, Ch_0, Ch_1>>).buf
    IN {b0, b1, b2, time_change(b2, 2).buf}

C9_WideCases ==
    /\ expand_special_vector_cases(<<Ch_1>>, 4).bytes = <<Ch_0, Ch_0, Ch_0, Ch_1>>
    /\ expand_special_vector_cases(<<Ch_x>>, 4).bytes = <<Ch_x, Ch_x, Ch_x, Ch_x>>
    /\ expand_special_vector_cases(<<Ch_Z>>, 4).bytes = <<Ch_Z, Ch_Z, Ch_Z, Ch_Z>>
    /\ \A b \in WideBuffers :
          /\ signal_change(b, 2, <<Ch_1>>)
                = signal_change(b, 2, <<Ch_0, Ch_0, Ch_0, Ch_0, Ch_0, Ch_0, Ch_0, Ch_1>>)
          /\ \A id \in {1, 2} : \A v \in ShortValues(b.signals[id - 1].len) :
                signal_change(b, id, v)
                    = signal_change(b, id, LeftPadded(v, b.signals[id - 1].len))

\* C9: a value shorter than the signal's width whose first byte is '0' or
\* '1' is written as if left-padded with '0', one whose first byte is x, X,
\* z or Z as if left-padded with that byte: the call returns what the
\* full-length write returns and leaves the buffer that write leaves.
C9_ShortValueExpansion ==
    /\ C9_WideCases
    /\ pc = "body" =>
          \A idx \in DOMAIN buf.signals : \A v \in ShortValues(buf.signals[idx].len) :
              signal_change(buf, idx + 1, v)
                  = signal_change(buf, idx + 1, LeftPadded(v, buf.signals[idx].len))

\* after a time advance signal 2 was written "01" and then the short value
\* "x", which left "xx" and a second record
C9_Witness ==
    /\ call.op = "signal_change" /\ call.res = Ok /\ call.changed
    /\ call.id = 2 /\ call.value = <<Ch_x>>
    /\ buf.time_table # <<>>
    /\ CurrentValue(buf, 1) = <<Ch_x, Ch_x>>
    /\ Len(extract_list(buf.value_changes, 1, None).bytes) > 3

---------------------------------------------------------------------------
(* Reading the emitted sections back.                                      *)

\* the variant integers of a byte string, one after the other
RECURSIVE DeltasOf(_)
DeltasOf(bytes) ==
    IF bytes = <<>>
    THEN <<>>
    ELSE LET r == read_variant_u64(bytes)
         IN <<ToNat(r.val)>> \o DeltasOf(SubSeq(bytes, r.n + 1, Len(bytes)))

RECURSIVE RunningSums(_, _)
RunningSums(deltas, base) ==
    IF deltas = <<>>
    THEN <<>>
    ELSE <<base + deltas[1]>> \o RunningSums(Tail(deltas), base + deltas[1])

\* the times of section k, its deltas summed up from the time before it
RECURSIVE BaseTime(_, _)
BaseTime(o, k) ==
    IF k <= 1
    THEN 0
    ELSE LET ts == RunningSums(DeltasOf(o[k - 1].time_table), BaseTime(o, k - 1))
         IN IF ts = <<>> THEN BaseTime(o, k - 1) ELSE ts[Len(ts)]

SectionTimes(o, k) == RunningSums(DeltasOf(o[k].time_table), BaseTime(o, k))

RECURSIVE TimeTableFrom(_, _)
TimeTableFrom(o, k) ==
    IF k > Len(o) THEN <<>> ELSE SectionTimes(o, k) \o TimeTableFrom(o, k + 1)

\* the time table of all sections of a file
RecoveredTimeTable(o) == TimeTableFrom(o, 1)

\* the character of a nine-value code
NineChar(code) ==
    CASE code = 0 -> Ch_x
      [] code = 1 -> Ch_z
      [] code = 2 -> Ch_h
      [] code = 3 -> Ch_u
      [] code = 4 -> Ch_w
      [] code = 5 -> Ch_l
      [] code = 6 -> Ch_minus
      [] OTHER -> Ch_quest

\* the records of one chain as <<time, value>> pairs: each record is placed
\* at the entry of ts found by the running sum of the time-index deltas
RECURSIVE DecodeChain(_, _, _, _)
DecodeChain(bytes, len, ts, index) ==
    IF bytes = <<>>
    THEN <<>>
    ELSE LET r == read_variant_u64(bytes)
             v == ToNat(r.val)
             plain == v % 2 = 0
             delta == IF len = 1 THEN (IF plain THEN v \div 4 ELSE v \div 16)
                      ELSE v \div 2
             nbytes == IF len = 1 THEN 0
                       ELSE IF plain THEN (len + 7) \div 8 ELSE len
             payload == SubSeq(bytes, r.n + 1, r.n + nbytes)
             value == IF len = 1
                      THEN <<IF plain THEN Ch_0 + ((v \div 2) % 2)
                             ELSE NineChar((v \div 2) % 8)>>
                      ELSE IF plain
                      THEN [i \in 1..len |->
                              Ch_0 + ((payload[((i - 1) \div 8) + 1]
                                          \div (2 ^ (7 - ((i - 1) % 8)))) % 2)]
                      ELSE payload
             at == index + delta
             time == IF at + 1 \in DOMAIN ts THEN ts[at + 1] ELSE -1
         IN <<(<<time, value>>)>>
                \o DecodeChain(SubSeq(bytes, r.n + nbytes + 1, Len(bytes)), len, ts, at)

\* the frame value of signal idx in section k, placed at the time the
\* section starts from
FrameEvent(o, k, idx) ==
    LET info == gen_signal_info(SignalLens).infos[idx]
    IN <<BaseTime(o, k), SubSeq(o[k].frame, info.offset + 1, info.offset + info.len)>>

\* signal idx read back from sections k onwards; a reader takes the frame of
\* the first section, and with later_frames those of the later ones too
RECURSIVE DecodedFrom(_, _, _, _)
DecodedFrom(o, k, idx, later_frames) ==
    IF k > Len(o)
    THEN <<>>
    ELSE (IF k = 1 \/ later_frames THEN <<FrameEvent(o, k, idx)>> ELSE <<>>)
            \o DecodeChain(o[k].chains[idx], gen_signal_info(SignalLens).infos[idx].len,
                           SectionTimes(o, k), 0)
            \o DecodedFrom(o, k + 1, idx, later_frames)

Decoded(o, idx, later_frames) == DecodedFrom(o, 1, idx, later_frames)

\* the value a sequence of <<time, value>> pairs gives a signal at time t
ValueAt(events, t, len) ==
    LET upto == {i \in DOMAIN events : events[i][1] >= 0 /\ events[i][1] <= t}
    IN IF upto = {}
       THEN Fill(len, Ch_x)
       ELSE events[CHOOSE i \in upto : \A j \in upto : j <= i][2]

SameValues(a, b, len) ==
    \A t \in 0..(MaxTime + 1) : ValueAt(a, t, len) = ValueAt(b, t, len)

\* C5: after finish, each signal read back from the emitted sections has at
\* every time the value of the last accepted write to it.
C5_ValueRoundTrip ==
    (pc = "closed" /\ written.clean) =>
        \E later_frames \in BOOLEAN : \A idx \in DOMAIN written.sig :
            SameValues(Decoded(out, idx, later_frames), written.sig[idx],
                       SignalLens[idx + 1])

\* C6: after finish of a run that advanced time, the time table read back
\* from the emitted sections is 0 followed by the times the run advanced to.
C6_TimeTableRoundTrip ==
    (pc = "closed" /\ written.clean /\ written.times # <<>>) =>
        RecoveredTimeTable(out) = <<0>> \o written.times

\* C7: after finish, the time table and the signals read back are those of
\* the same calls made without the explicit flushes.
C7_FlushTransparency ==
    (pc = "closed" /\ written.clean) =>
        /\ RecoveredTimeTable(out) = RecoveredTimeTable(twin.out)
        /\ \E later_frames \in BOOLEAN : \A idx \in DOMAIN written.sig :
              SameValues(Decoded(out, idx, later_frames),
                         Decoded(twin.out, idx, later_frames), SignalLens[idx + 1])

---------------------------------------------------------------------------
(* Errors of signal_change *)

\* value bytes of every kind: empty, valid, malformed, short and long
AnyValues ==
    {<<>>, <<Ch_0>>, <<Ch_2>>, <<Ch_0, Ch_1>>, <<Ch_Z, Ch_minus>>,
     <<Ch_x, Ch_x, Ch_x>>}

\* C11: signal_change with a handle that indexes no registered signal
\* returns InvalidSignalId(id) and leaves the buffer and the output as they
\* were, whatever the value bytes are.
C11_InvalidSignalId ==
    [][(/\ call'.op = "signal_change" /\ pc = "body"
        /\ to_array_index(call'.id) \notin DOMAIN buf.signals)
         => /\ call'.res = Err("InvalidSignalId", call'.id, 0)
            /\ buf' = buf
            /\ out' = out
            /\ pc' = pc
            /\ \A v \in AnyValues :
                  signal_change(buf, call'.id, v)
                      = [buf |-> buf, res |-> Err("InvalidSignalId", call'.id, 0)]]_vars

\* handle 3 of a file with two signals was refused by a buffer that holds
\* a time table and a chain record
C11_Witness ==
    /\ call.op = "signal_change" /\ call.id = 3
    /\ call.res = Err("InvalidSignalId", 3, 0) /\ ~call.changed
    /\ pc = "body"
    /\ buf.time_table # <<>> /\ buf.value_changes.data # <<>>

\* C12: signal_change with a value longer than the signal returns
\* InvalidValueLength(expected, got) to the caller, who goes on, and leaves
\* the buffer as it was.
C12_TooLongValueIsAnError ==
    [][(/\ call'.op = "signal_change" /\ pc = "body"
        /\ to_array_index(call'.id) \in DOMAIN buf.signals
        /\ Len(call'.value) > buf.signals[to_array_index(call'.id)].len)
         => /\ call'.res = Err("InvalidValueLength",
                               buf.signals[to_array_index(call'.id)].len,
                               Len(call'.value))
            /\ pc' = "body"
            /\ buf' = buf]_vars

\* C13: signal_change with an empty value, or with a short value whose
\* first byte is none of 0, 1, x, X, z, Z, returns InvalidCharacter to the
\* caller, who goes on, and leaves the buffer as it was.
C13_UnexpandableValueIsAnError ==
    [][(/\ call'.op = "signal_change" /\ pc = "body"
        /\ to_array_index(call'.id) \in DOMAIN buf.signals
        /\ Len(call'.value) < buf.signals[to_array_index(call'.id)].len
        /\ (call'.value = <<>> \/ call'.value[1] \notin ShortFirstBytes))
         => /\ call'.res.kind = "InvalidCharacter"
            /\ pc' = "body"
            /\ buf' = buf]_vars

\* the bytes a 1-bit signal can take: 0, 1 and the nine-value characters
OneBitAlphabet ==
    {Ch_0, Ch_1, Ch_x, Ch_X, Ch_z, Ch_Z, Ch_h, Ch_H, Ch_u, Ch_U, Ch_w, Ch_W,
     Ch_l, Ch_L, Ch_minus, Ch_quest}

\* C14: a signal_change that gave the 1-bit signal a byte outside
\* OneBitAlphabet returned InvalidCharacter, and the slot of the 1-bit
\* signal in the buffer's frame and in every emitted frame holds a byte of
\* OneBitAlphabet.
C14_OneBitInvalidCharacter ==
    /\ (/\ call.op = "signal_change" /\ call.id = 1
        /\ Len(call.value) = 1 /\ call.value[1] \notin OneBitAlphabet)
          => call.res.kind = "InvalidCharacter"
    /\ buf.frame[1] \in OneBitAlphabet
    /\ \A k \in DOMAIN out : out[k].frame[1] \in OneBitAlphabet
    /\ \A r \in {DecodeChain(out[k].chains[0], 1, SectionTimes(out, k), 0) : k \in DOMAIN out} :
          \A i \in DOMAIN r : r[i][2][1] \in OneBitAlphabet

---------------------------------------------------------------------------
(* The header phase and the life of a file *)

\* the calls of the header phase named op that returned Ok
CallsOf(op) ==
    {j \in DOMAIN header.calls : header.calls[j].op = op /\ header.calls[j].res = Ok}

\* the var calls made without an alias, and those made with one
PrimaryVars == {j \in CallsOf("var") : ~header.calls[j].alias.some}

AliasVars == {j \in CallsOf("var") : header.calls[j].alias.some}

\* C15: a var call with alias Some(h) returns h and allocates no signal:
\* there are as many signals as var calls without an alias, and in the body
\* phase a signal_change through the handle the alias call returned does
\* what one through h does.
C15_AliasVisibility ==
    /\ \A j \in AliasVars : header.calls[j].id = header.calls[j].alias.len
    /\ Len(header.hw.signals) = Cardinality(PrimaryVars)
    /\ pc = "body" =>
          /\ Cardinality(DOMAIN buf.signals) = Cardinality(PrimaryVars)
          /\ \A j \in AliasVars : \A w \in FileWrites :
                signal_change(buf, header.calls[j].id, w[2])
                    = signal_change(buf, header.calls[j].alias.len, w[2])

\* a 1-bit signal and an alias of it were registered, and after a time
\* advance a write through the alias's handle put a record on the chain of
\* the one signal
C15_Witness ==
    /\ pc = "body"
    /\ AliasVars # {} /\ Cardinality(PrimaryVars) = 1
    /\ \E j \in AliasVars : header.calls[j].id = 1 /\ call.id = header.calls[j].id
    /\ call.op = "signal_change" /\ call.res = Ok /\ call.changed
    /\ buf.values = <<Ch_1>>
    /\ extract_list(buf.value_changes, 0, None).bytes # <<>>

\* the Geometry blocks of the file
GeometryBlocks ==
    {k \in DOMAIN header.hw.out : header.hw.out[k].tag = "Geometry"}

\* C16: once the header writer has finished, num_signals in the
\* HeaderFinishInfo and max_handle in the geometry block are the number of
\* var calls without an alias, var_count is the number of all var calls and
\* scope_count the number of scope calls.
C16_HeaderCounts ==
    pc \in {"body", "closed", "failed"} =>
        /\ finish_info.num_signals = Cardinality(PrimaryVars)
        /\ GeometryBlocks # {}
        /\ \A k \in GeometryBlocks :
              header.hw.out[k].max_handle = Cardinality(PrimaryVars)
        /\ finish_info.var_count = Cardinality(CallsOf("var"))
        /\ finish_info.scope_count = Cardinality(CallsOf("scope"))

\* a scope with a signal and an alias of it was closed and the header
\* finished: one signal, two variables, one scope
C16_Witness ==
    /\ pc = "body" /\ header.debug_assertions
    /\ Cardinality(PrimaryVars) = 1 /\ Cardinality(AliasVars) = 1
    /\ Cardinality(CallsOf("scope")) = 1 /\ Cardinality(CallsOf("up_scope")) = 1
    /\ finish_info.num_signals = 1 /\ finish_info.var_count = 2
    /\ finish_info.scope_count = 1

\* the position of call j among the var calls without an alias
Rank(j) == Cardinality({i \in PrimaryVars : i <= j})

\* C17: the var calls without an alias return the handles 1, 2, 3, ... in
\* the order of the calls, and in the body phase handle k addresses the
\* storage of the k-th of them: its width, at the offset behind the
\* signals before it.
C17_HandlesInOrder ==
    /\ \A j \in PrimaryVars : header.calls[j].id = Rank(j)
    /\ pc = "body" =>
          \A j \in PrimaryVars :
              LET k == header.calls[j].id
                  info == buf.signals[to_array_index(k)]
              IN /\ to_array_index(k) = k - 1
                 /\ info.len = header.calls[j].len
                 /\ info.offset = SumLens(header.hw.signals, k - 1)

\* signals of width 1 and 2 got the handles 1 and 2, and a write through
\* handle 2 landed in the second signal's bytes
C17_Witness ==
    /\ pc = "body" /\ Cardinality(PrimaryVars) = 2
    /\ header.hw.signals = <<1, 2>>
    /\ call.op = "signal_change" /\ call.id = 2 /\ call.res = Ok
    /\ buf.values = <<Ch_x, Ch_0, Ch_1>>

\* C18: the num_value_change_sections handed to update_header by
\* FstBodyWriter::finish is the number of sections emitted: the explicit
\* flush calls that succeeded and the one flush of finish; failed flushes
\* are not counted.
C18_SectionCount ==
    /\ pc = "body" =>
          /\ finish_info.num_value_change_sections = Len(out)
          /\ Len(out) = written.flushes
    /\ pc = "closed" =>
          /\ finish_info.num_value_change_sections = Len(out)
          /\ Len(out) = written.flushes + 1
          /\ finish_info.num_value_change_sections >= 1

\* a file was finished after one flush that succeeded and one that failed
C18_Witness ==
    /\ pc = "closed" /\ written.flushes = 1 /\ written.failed_flushes = 1
    /\ finish_info.num_value_change_sections = 2

\* the blocks of the file, in order, and their tags
FileBlocks == header.hw.out \o out

FileTags == [k \in DOMAIN FileBlocks |-> FileBlocks[k].tag]

\* C19: the phases follow one another as header, body, closed; the file
\* holds one Header block while in the header phase and from body entry on
\* a Header, a HierarchyLZ4 and a Geometry block followed by the
\* value-change blocks; the hierarchy is not written to after body entry,
\* and nothing is emitted after finish.
C19_LifeCycle ==
    [][/\ pc = "header" => pc' \in {"header", "body", "aborted"}
       /\ pc = "body" => pc' \in {"body", "closed", "aborted", "failed"}
       /\ pc \in {"closed", "aborted", "failed"} =>
             (pc' = pc /\ FileBlocks' = FileBlocks)
       /\ pc # "header" => header'.hw.hierarchy_buf = header.hw.hierarchy_buf
       /\ pc' = "header" => FileTags' = <<"Header">>
       /\ pc' \in {"body", "closed"} =>
             FileTags' = <<"Header", "HierarchyLZ4", "Geometry">>
                            \o [k \in DOMAIN out' |-> "VcDataDynamicAlias2"]]_vars

\* a file with a scope and a signal was closed after two value-change blocks
C19_Witness ==
    /\ pc = "closed" /\ Len(out) = 2
    /\ Len(header.hw.hierarchy_buf) = 2
    /\ FileTags = <<"Header", "HierarchyLZ4", "Geometry",
                    "VcDataDynamicAlias2", "VcDataDynamicAlias2">>

\* C20: scope_depth is the number of scope calls minus the number of
\* up_scope calls, which is never negative, and it is 0 once the header
\* writer has finished.
C20_ScopeDepth ==
    /\ Cardinality(CallsOf("up_scope")) <= Cardinality(CallsOf("scope"))
    /\ header.hw.scope_depth
          = U64(Cardinality(CallsOf("scope")) - Cardinality(CallsOf("up_scope")))
    /\ pc \in {"body", "closed"} => IsZero64(header.hw.scope_depth)

\* the alias index a var record of the hierarchy holds is 0 (no alias) or
\* the handle of a signal registered by a var record before it
AliasIndexRegistered(hierarchy_buf) ==
    \A k \in DOMAIN hierarchy_buf :
        (hierarchy_buf[k].tpe = "var" /\ hierarchy_buf[k].alias # 0) =>
            /\ hierarchy_buf[k].alias >= 1
            /\ hierarchy_buf[k].alias
                  <= Cardinality({i \in 1..(k - 1) :
                                     /\ hierarchy_buf[i].tpe = "var"
                                     /\ hierarchy_buf[i].alias = 0})

\* C21: every alias handle a var call accepted is the handle of a signal
\* registered by an earlier var call, and so is every alias index in the
\* hierarchy.
C21_AliasRegistered ==
    /\ \A j \in AliasVars :
          /\ to_index(header.calls[j].alias.len) >= 1
          /\ to_index(header.calls[j].alias.len)
                <= Cardinality({i \in PrimaryVars : i < j})
    /\ AliasIndexRegistered(header.hw.hierarchy_buf)

\* C22: a finish whose flush failed returns that error and leaves the
\* header block as it was, without counts; a finish that succeeded has
\* rewritten it with the counts of the finish info.
C22_HeaderPatchOnSuccessOnly ==
    [][(call'.op = "finish" /\ pc = "body") =>
          /\ call'.res # Ok =>
                /\ call'.res = Err("Io", 0, 0)
                /\ header' = header
                /\ header'.hw.out[1].counts = NoCounts
          /\ call'.res = Ok =>
                header'.hw.out[1]
                    = update_header(header.hw.out[1], finish_info')]_vars

\* the finish of a file with a signal and an emitted section failed
C22_Witness ==
    /\ pc = "failed" /\ call.op = "finish" /\ call.res = Err("Io", 0, 0)
    /\ Len(out) = 1 /\ Len(header.hw.signals) = 1
    /\ header.hw.out[1].counts = NoCounts

\* the bytes of signal idx in a buffer of all values
Slot(bytes, idx) ==
    SubSeq(bytes, gen_signal_info(SignalLens).infos[idx].offset + 1,
           gen_signal_info(SignalLens).infos[idx].offset
               + gen_signal_info(SignalLens).infos[idx].len)

AllX(bytes) == \A i \in DOMAIN bytes : bytes[i] = Ch_x

\* C24: a fresh buffer holds 'x' in all of frame and values; the frame slot
\* of a signal that no signal_change addressed before the last first time
\* advance of a section is all 'x', and so are the value slot and every
\* emitted frame slot of a signal that no signal_change addressed at all.
C24_UntouchedIsX ==
    /\ AllX(SignalBuffer_new(SignalLens).frame)
    /\ AllX(SignalBuffer_new(SignalLens).values)
    /\ written.snapped \subseteq written.touched
    /\ \A idx \in DOMAIN buf.prev_time_table_index :
          /\ idx \notin written.snapped => AllX(Slot(buf.frame, idx))
          /\ idx \notin written.touched =>
                /\ AllX(Slot(buf.values, idx))
                /\ \A k \in DOMAIN out : AllX(Slot(out[k].frame, idx))

\* a section was emitted whose frame holds a written value for signal 0 and
\* 'x' for signal 1, which was written only after the first time advance
C24_Witness ==
    /\ written.snapped = {0} /\ written.touched = {0, 1}
    /\ Len(out) = 1
    /\ ~AllX(Slot(out[1].frame, 0))
    /\ AllX(Slot(out[1].frame, 1))
    /\ ~AllX(Slot(buf.values, 1))

RECURSIVE SumOf(_)
SumOf(deltas) == IF deltas = <<>> THEN 0 ELSE deltas[1] + SumOf(Tail(deltas))

\* the end_time at which the current section began
SectionBegin(o) == IF o = <<>> THEN 0 ELSE o[Len(o)].end_time

\* C26: a time_change(t) with t above end_time appends the one entry
\* variant_u64(t - end_time) to the time table and sets end_time to t; after
\* every step the deltas of the time table sum up to end_time minus the
\* end_time at which the section began.
C26_TimeTableDeltas ==
    [][/\ (pc = "body" /\ call'.op = "time_change" /\ call'.time > buf.end_time) =>
             /\ call'.res = Ok
             /\ buf'.time_table
                   = buf.time_table
                        \o write_variant_u64(U64(call'.time - buf.end_time))
             /\ DeltasOf(buf'.time_table)
                   = Append(DeltasOf(buf.time_table), call'.time - buf.end_time)
             /\ buf'.end_time = call'.time
       /\ SumOf(DeltasOf(buf'.time_table)) = buf'.end_time - SectionBegin(out')]_vars

\* the second section holds two deltas and began at a time above 0
C26_Witness ==
    /\ Len(out) = 1 /\ out[1].end_time > 0
    /\ Len(DeltasOf(buf.time_table)) = 2
    /\ call.op = "time_change" /\ call.res = Ok

\* C27: only the first advance of a section copies the values into the frame
\* and sets start_time, leaving time_table_index at 0; a later advance adds 1
\* to time_table_index and leaves frame and start_time; signal_change and
\* every other call leave the frame.
C27_FrameSnapshot ==
    [][LET advance == /\ pc = "body" /\ call'.op = "time_change"
                      /\ call'.time > buf.end_time
           first == advance /\ buf.time_table = <<>>
       IN /\ first => /\ buf'.frame = buf.values
                      /\ buf'.start_time = call'.time
                      /\ buf.time_table_index = 0
                      /\ buf'.time_table_index = 0
          /\ (advance /\ ~first) =>
                /\ buf'.time_table_index = buf.time_table_index + 1
                /\ buf'.start_time = buf.start_time
          /\ ~first => buf'.frame = buf.frame
          /\ (call'.op = "time_change" /\ ~first) =>
                buf'.start_time = buf.start_time]_vars

\* a later advance left a frame that differs from the values it found
C27_Witness ==
    /\ call.op = "time_change" /\ call.res = Ok
    /\ buf.time_table_index = 1
    /\ buf.frame # buf.values
    /\ buf.start_time < buf.end_time
    /\ ~AllX(buf.frame)

\* C28: a flush, explicit or inside finish, leaves an empty time table,
\* time_table_index 0, prev_time_table_index 0 and an empty chain for every
\* signal and start_time = end_time; it returns end_time, keeps the values
\* and end_time, and the size is that of a new buffer.
C28_FlushResets ==
    [][(pc = "body" /\ call'.op \in {"flush", "finish"} /\ call'.res = Ok) =>
          /\ buf'.time_table = <<>>
          /\ buf'.time_table_index = 0
          /\ \A i \in DOMAIN buf'.prev_time_table_index :
                /\ buf'.prev_time_table_index[i] = 0
                /\ buf'.value_changes.lists_last[i] = 0
                /\ extract_list(buf'.value_changes, i, None).bytes = <<>>
          /\ buf'.start_time = buf'.end_time
          /\ buf'.end_time = buf.end_time
          /\ flush(buf).ret = buf.end_time
          /\ call'.op = "finish" => finish_info'.end_time = buf.end_time
          /\ buf'.values = buf.values
          /\ size(buf') = size(SignalBuffer_new(SignalLens))]_vars

\* a flush has reset a buffer that held two times and a value change
C28_Witness ==
    /\ call.op = "flush" /\ call.res = Ok /\ call.changed
    /\ Len(out) = 1
    /\ out[1].time_table_entries = 2
    /\ \E i \in DOMAIN out[1].chains : out[1].chains[i] # <<>>
    /\ buf.end_time > 0 /\ buf.start_time = buf.end_time

\* C29: the frame a flush emits is the frame copied at the first advance of
\* the section, and the current values when the section saw no advance.
C29_FrameOfSection ==
    [][(pc = "body" /\ call'.op \in {"flush", "finish"} /\ call'.res = Ok) =>
          out'[Len(out')].frame
             = IF buf.time_table = <<>> THEN buf.values ELSE buf.frame]_vars

\* C30: the entry count of every emitted section is the number of deltas
\* in its time table.
C30_EntryCount ==
    \A k \in DOMAIN out :
        out[k].time_table_entries = Len(DeltasOf(out[k].time_table))

\* the bytes of a stream from position first to position last - 1
BytesAt(output, first, last) == SubSeq(output.bytes, first + 1, last)

\* the last call wrote a block with a length field fixed afterwards
BlockWritten == disk.last.op \in {"hierarchy", "geometry", "value_change"}

\* what every block writer guarantees on return, but for the range of the fix
BackPatched ==
    LET r == disk.last.r
        before == disk.last.before
    IN /\ r.res = Ok
       /\ before.pos = Len(before.bytes)
       /\ BytesAt(r.cur, 0, before.pos) = before.bytes
       /\ r.start = before.pos + 1
       /\ BytesAt(r.cur, r.start, r.start + 8) = to_be_bytes(U64(r.end - r.start))
       /\ r.cur.pos = r.end
       /\ r.end = Len(r.cur.bytes)
       /\ disk.cur = r.cur
       /\ Len(r.cur.bytes) = Len(r.body.bytes)

\* C23 as stated: on return of a block writer the length field after the
\* tag holds end - start, the position is back at the end, the block starts
\* where the stream ended before, and no byte outside the length field was
\* overwritten.
C23_PatchOnlyLengthField ==
    BlockWritten =>
        /\ BackPatched
        /\ disk.last.r.cur.overwritten
              \subseteq (disk.last.r.start + 1)..(disk.last.r.start + 8)

\* C23: on return of a block writer the length field after the tag holds
\* end - start, the position is back at the end and the block starts where
\* the stream ended before; write_hierarchy_bytes and
\* write_value_change_section overwrite the length field only, and
\* write_geometry overwrites the length field and the 8 bytes after it,
\* which then hold end - start - 24.
C23_BackPatch ==
    BlockWritten =>
        /\ BackPatched
        /\ disk.last.op # "geometry" =>
              disk.last.r.cur.overwritten
                 = (disk.last.r.start + 1)..(disk.last.r.start + 8)
        /\ disk.last.op = "geometry" =>
              /\ disk.last.r.cur.overwritten
                    = (disk.last.r.start + 1)..(disk.last.r.start + 16)
              /\ BytesAt(disk.last.r.cur, disk.last.r.start + 8, disk.last.r.start + 16)
                    = to_be_bytes(U64(disk.last.r.end - disk.last.r.start - 24))

\* a geometry block with two signals written behind another block
C23_Witness ==
    /\ disk.n = 2 /\ disk.last.op = "geometry"
    /\ disk.last.before.pos > 0
    /\ Len(disk.last.args.signals) = 2
    /\ disk.last.r.end - disk.last.r.start > 24

\* C25: write_c_str_fixed_length(s, N) returns StringTooLong(N, s) and
\* leaves the stream when len(s) >= N, and else appends the bytes of s and
\* N - len(s) zeros, N bytes in all; write_header returns Ok exactly for a
\* version below 128 bytes and a date below 119 bytes, and then has written
\* the tag and HEADER_LENGTH bytes.
C25_FixedLengthStrings ==
    /\ disk.last.op = "c_str" =>
          LET s == disk.last.args.value
              N == disk.last.args.max_len
              r == disk.last.r
              before == disk.last.before
          IN IF Len(s) >= N
             THEN r.res = Err("StringTooLong", N, s) /\ r.cur = before
             ELSE /\ r.res = Ok
                  /\ r.cur.bytes = before.bytes \o s \o [i \in 1..(N - Len(s)) |-> 0]
                  /\ Len(r.cur.bytes) = Len(before.bytes) + N
                  /\ r.cur.pos = before.pos + N
    /\ disk.last.op = "header" =>
          LET h == disk.last.args
              r == disk.last.r
              before == disk.last.before
          IN /\ r.res = Ok <=> (Len(h.version) < 128 /\ Len(h.date) < 119)
             /\ Len(h.version) >= 128 =>
                   r.res = Err("StringTooLong", 128, h.version)
             /\ (Len(h.version) < 128 /\ Len(h.date) >= 119) =>
                   r.res = Err("StringTooLong", 119, h.date)
             /\ r.res = Ok =>
                   /\ Len(r.cur.bytes) = Len(before.bytes) + 1 + HEADER_LENGTH
                   /\ BytesAt(r.cur, before.pos + 74, before.pos + 74 + 128)
                         = h.version \o [i \in 1..(128 - Len(h.version)) |-> 0]
                   /\ BytesAt(r.cur, before.pos + 202, before.pos + 202 + 119)
                         = h.date \o [i \in 1..(119 - Len(h.date)) |-> 0]

\* a header with the longest version and date strings was written
C25_Witness ==
    /\ disk.last.op = "header" /\ disk.last.r.res = Ok
    /\ Len(disk.last.args.version) = 127
    /\ Len(disk.last.args.date) = 118
    /\ Len(disk.cur.bytes) = 330

\* the records of a chain as <<time-table index, value>> pairs: the index
\* of a record is the running sum of the deltas up to it
RecordIndices(self, idx) ==
    DecodeChain(extract_list(self.value_changes, idx, None).bytes,
                self.signals[idx].len, [i \in 1..(MaxTime + 2) |-> i - 1], 0)

\* a signal_change on a known signal was made in this step
SignalChanged == pc = "body" /\ call'.op = "signal_change"
                 /\ to_array_index(call'.id) \in DOMAIN buf.signals

\* C31: a record appended to a chain carries the delta
\* time_table_index - prev_time_table_index[id], so the running sum of the
\* deltas up to it is the current time_table_index, which
\* prev_time_table_index[id] then holds; the records before it stay, and the
\* indices of every chain never decrease along the chain.
C31_ChainDeltas ==
    [][/\ (SignalChanged /\ buf'.value_changes # buf.value_changes) =>
             LET idx == to_array_index(call'.id)
             IN /\ Len(RecordIndices(buf', idx)) = Len(RecordIndices(buf, idx)) + 1
                /\ SubSeq(RecordIndices(buf', idx), 1, Len(RecordIndices(buf, idx)))
                      = RecordIndices(buf, idx)
                /\ RecordIndices(buf', idx)[Len(RecordIndices(buf', idx))][1]
                      = buf.time_table_index
                /\ buf'.prev_time_table_index[idx] = buf.time_table_index
       /\ \A i \in DOMAIN buf'.signals :
             /\ \A k \in 1..(Len(RecordIndices(buf', i)) - 1) :
                   RecordIndices(buf', i)[k][1] <= RecordIndices(buf', i)[k + 1][1]
             /\ RecordIndices(buf', i) # <<>> =>
                   RecordIndices(buf', i)[Len(RecordIndices(buf', i))][1]
                      = buf'.prev_time_table_index[i]]_vars

\* a chain holds two records, written at the time-table indices 0 and 1
C31_Witness ==
    \E i \in DOMAIN buf.signals :
        /\ Len(RecordIndices(buf, i)) = 2
        /\ RecordIndices(buf, i)[1][1] = 0
        /\ RecordIndices(buf, i)[2][1] = 1
        /\ buf.prev_time_table_index[i] = 1

\* C34: start_time <= end_time in every state, and no step lowers end_time.
C34_StartBeforeEnd ==
    [][/\ buf.start_time <= buf.end_time
       /\ buf'.start_time <= buf'.end_time
       /\ buf.end_time <= buf'.end_time]_vars

\* a second section that started above 0 and has advanced since
C34_Witness ==
    /\ Len(out) = 1
    /\ 0 < buf.start_time /\ buf.start_time < buf.end_time
    /\ out[1].end_time < buf.start_time

\* C35: prev_time_table_index[id] <= time_table_index for every signal, so
\* the subtraction in signal_change has a result that is not negative.
C35_PrevIndexBelowIndex ==
    \A i \in DOMAIN buf.prev_time_table_index :
        /\ 0 <= buf.prev_time_table_index[i]
        /\ buf.time_table_index - buf.prev_time_table_index[i] >= 0

\* a signal that changed at index 1 while the time table has moved on to 2
C35_Witness ==
    \E i \in DOMAIN buf.prev_time_table_index :
        /\ buf.prev_time_table_index[i] = 1
        /\ buf.time_table_index = 2

\* C36: the slot of a signal starts at the sum of the lengths of the
\* signals before it, and a signal_change leaves the value bytes, the chain,
\* the last-entry pointer and prev_time_table_index of every signal it does
\* not address.
C36_SlotsDisjoint ==
    [][/\ \A i \in DOMAIN buf.signals :
             /\ buf.signals[i].len = SignalLens[i + 1]
             /\ buf.signals[i].offset = SumLens(SignalLens, i)
             /\ \A j \in DOMAIN buf.signals :
                   i < j => buf.signals[i].offset + buf.signals[i].len
                               <= buf.signals[j].offset
       /\ SignalChanged =>
             \A j \in DOMAIN buf.signals \ {to_array_index(call'.id)} :
                /\ Slot(buf'.values, j) = Slot(buf.values, j)
                /\ extract_list(buf'.value_changes, j, None)
                      = extract_list(buf.value_changes, j, None)
                /\ buf'.value_changes.lists_last[j] = buf.value_changes.lists_last[j]
                /\ buf'.prev_time_table_index[j] = buf.prev_time_table_index[j]]_vars

\* a change of one signal was recorded while the other has a chain and a
\* value of its own
C36_Witness ==
    /\ call.op = "signal_change" /\ call.res = Ok /\ call.changed
    /\ \A i \in DOMAIN buf.signals :
          /\ extract_list(buf.value_changes, i, None).bytes # <<>>
          /\ ~AllX(Slot(buf.values, i))

\* C37: a signal_change that returns an error leaves the values, the
\* chains and prev_time_table_index as they were.
C37_ErrorLeavesBuffer ==
    [][(pc = "body" /\ call'.op = "signal_change"
          /\ call'.res.kind \notin {"Ok", "Panic"}) =>
          /\ buf'.values = buf.values
          /\ buf'.value_changes = buf.value_changes
          /\ buf'.prev_time_table_index = buf.prev_time_table_index
          /\ buf'.frame = buf.frame]_vars

\* the nine-value characters in the order of their codes, lower and upper case
NineLower == <<Ch_x, Ch_z, Ch_h, Ch_u, Ch_w, Ch_l, Ch_minus, Ch_quest>>
NineUpper == <<Ch_X, Ch_Z, Ch_H, Ch_U, Ch_W, Ch_L, Ch_minus, Ch_quest>>

\* the integer a sequence of bytes holds as one variant integer, -1 when it
\* is not exactly one
AsVariant(bytes) ==
    IF bytes # <<>> /\ read_variant_u64(bytes).n = Len(bytes)
    THEN ToNat(read_variant_u64(bytes).val) ELSE -1

\* C32: write_one_bit_signal(delta, v) emits variant_u64(delta * 4 + bit * 2)
\* for '0' and '1', variant_u64(delta * 16 + code * 2 + 1) for a nine-value
\* character with the code of its position in x z h u w l - ?, and for
\* any other byte returns InvalidCharacter with no byte written; bit 0 of
\* the integer tells the forms apart, and delta and value are read back
\* from it.
C32_OneBitEncoding ==
    (encoder.pc = "encoded" /\ encoder.op = "one_bit") =>
        LET v == encoder.value[1]
            d == encoder.delta
            n == AsVariant(encoder.r.bytes)
        IN /\ v \in {Ch_0, Ch_1} =>
                 /\ encoder.r.ok
                 /\ encoder.r.bytes = write_variant_u64(U64(d * 4 + (v - Ch_0) * 2))
                 /\ n % 2 = 0 /\ n \div 4 = d /\ Ch_0 + ((n \div 2) % 2) = v
           /\ \A c \in 0..7 :
                 v \in {NineLower[c + 1], NineUpper[c + 1]} =>
                    /\ encoder.r.ok
                    /\ encoder.r.bytes = write_variant_u64(U64(d * 16 + c * 2 + 1))
                    /\ n % 2 = 1 /\ n \div 16 = d /\ (n \div 2) % 8 = c
           /\ (v \notin {Ch_0, Ch_1}
                 /\ \A c \in 1..8 : v \notin {NineLower[c], NineUpper[c]}) =>
                 ~encoder.r.ok /\ encoder.r.bytes = <<>>

\* an upper-case 'W' was encoded with a delta above 0
C32_Witness ==
    /\ encoder.pc = "encoded" /\ encoder.op = "one_bit"
    /\ encoder.value = <<Ch_W>> /\ encoder.delta = 3
    /\ encoder.r.ok /\ AsVariant(encoder.r.bytes) = 57

\* bit i (from 1) of a vector of '0' and '1' characters, 0 beyond its end
BitAt(values, i) == IF i <= Len(values) THEN values[i] - Ch_0 ELSE 0

\* n bits packed left to right, the first bit of every eight the highest
Packed(values) ==
    [j \in 1..((Len(values) + 7) \div 8) |->
        128 * BitAt(values, 8 * j - 7) + 64 * BitAt(values, 8 * j - 6)
        + 32 * BitAt(values, 8 * j - 5) + 16 * BitAt(values, 8 * j - 4)
        + 8 * BitAt(values, 8 * j - 3) + 4 * BitAt(values, 8 * j - 2)
        + 2 * BitAt(values, 8 * j - 1) + BitAt(values, 8 * j)]

\* C33: write_multi_bit_signal(delta, values) emits variant_u64(delta * 2 + b)
\* with b = 0 exactly when every byte is '0' or '1'; then ceil(n / 8) bytes
\* follow with the bits packed left to right, highest bit first, the unused
\* low bits of the last byte 0; with b = 1 the n bytes follow as they are.
C33_MultiBitEncoding ==
    (encoder.pc = "encoded" /\ encoder.op = "multi_bit") =>
        LET values == encoder.value
            digital == \A i \in DOMAIN values : values[i] \in {Ch_0, Ch_1}
            flag == IF digital THEN 0 ELSE 1
            head == write_variant_u64(U64(encoder.delta * 2 + flag))
            payload == SubSeq(encoder.r.bytes, Len(head) + 1, Len(encoder.r.bytes))
        IN /\ encoder.r.ok
           /\ SubSeq(encoder.r.bytes, 1, Len(head)) = head
           /\ digital => /\ Len(payload) = (Len(values) + 7) \div 8
                         /\ payload = Packed(values)
           /\ ~digital => payload = values

\* nine bits were packed into two bytes, the second with seven unused bits
C33_Witness ==
    /\ encoder.pc = "encoded" /\ encoder.op = "multi_bit"
    /\ encoder.value = Pattern(9, 1) /\ encoder.delta = 2
    /\ encoder.r.bytes = <<4, 170, 128>>

====
